---- MODULE Spec2Model ----
(***************************************************************************)
(* Model of the document-construction core of saba_core:                   *)
(*   renderer/html/token.rs   HtmlTokenizer (Iterator::next)               *)
(*   renderer/html/parser.rs  HtmlParser::construct_tree                   *)
(*   renderer/dom/node.rs     Node, Element, ElementKind, Window           *)
(* and of the style sheet and URL code:                                    *)
(*   renderer/css/token.rs    CssTokenizer (Iterator::next)                *)
(*   renderer/css/cssom.rs    CssParser::parse_stylesheet                  *)
(*   url.rs                   Url::parse                                   *)
(* A character is a one-character string, a Rust String / Vec<char> is a   *)
(* sequence of characters.  A Rust panic (failed assert!, index out of     *)
(* bounds, expect on None) is the outcome "panic".                         *)
(***************************************************************************)
EXTENDS Integers, Sequences, FiniteSets, TLC

VARIABLES
    input,                      \* HtmlTokenizer.input
    tokenizer,                  \* HtmlTokenizer: state, pos, reconsume, latest_token, buf
    pulled,                     \* history: the results of the calls of HtmlTokenizer::next
    nodes,                      \* the Rc<RefCell<Node>> cells; nodes[1] is Window.document
    current_mode,               \* HtmlParser.current_mode
    original_mode,              \* HtmlParser.original_mode
    stack_of_open_elements,     \* HtmlParser.stack_of_open_elements (indices of nodes)
    token,                      \* the local `token` of construct_tree
    pc,                         \* position of the caller: "start", "loop", "done",
                                \* "panic", "panic_element"
    css_input,                  \* CssTokenizer.input
    css_tokenizer,              \* a CssTokenizer pulled from directly: pos
    css_pulled,                 \* history: the results of the calls of CssTokenizer::next
    css_parser,                 \* CssParser: tokenizer, the locals of its calls and
                                \* its position: "start", "rules", "rule",
                                \* "selector_class", "selector_type",
                                \* "selector_unknown", "skip", "skip_next",
                                \* "declarations", "declaration_colon",
                                \* "declaration_value", "done", "panic"
    url,                        \* Url.url
    url_result,                 \* the result of Url::parse
    http_raw,                   \* the raw_response given to HttpResponse::new
    http_result,                \* the result of HttpResponse::new
    from_str_s,                 \* the s given to ElementKind::from_str
    from_str_result             \* the result of ElementKind::from_str

html_vars == <<input, tokenizer, pulled, nodes, current_mode, original_mode,
               stack_of_open_elements, token, pc>>
css_vars == <<css_input, css_tokenizer, css_pulled, css_parser>>
url_vars == <<url, url_result>>
http_vars == <<http_raw, http_result>>
kind_vars == <<from_str_s, from_str_result>>

vars == <<html_vars, css_vars, url_vars, http_vars, kind_vars>>

----------------------------------------------------------------------------
(* Bounds of the model                                                     *)

\* number of fragments concatenated into a style sheet text
MaxCssPieces == 2

\* number of calls of CssTokenizer::next made by the caller of SpecCssTokenizer
MaxCssPulls == 12

\* number of fragments concatenated into an input text
MaxPieces == 2
\* number of node cells the tree constructor may allocate
MaxNodes == 10
\* number of calls of HtmlTokenizer::next made by the tokenizer driver
MaxPulls == 12

----------------------------------------------------------------------------
(* Characters                                                              *)

LowerSeq == <<"a","b","c","d","e","f","g","h","i","j","k","l","m",
              "n","o","p","q","r","s","t","u","v","w","x","y","z">>
UpperSeq == <<"A","B","C","D","E","F","G","H","I","J","K","L","M",
              "N","O","P","Q","R","S","T","U","V","W","X","Y","Z">>

Range(s) == {s[i] : i \in DOMAIN s}

is_ascii_uppercase(c) == c \in Range(UpperSeq)
is_ascii_alphabetic(c) == c \in Range(UpperSeq) \cup Range(LowerSeq)

\* the identity on every character: a tokenizer that forgets to fold case
to_ascii_lowercase_identity(c) == c

to_ascii_lowercase(c) ==
    IF is_ascii_uppercase(c)
    THEN LowerSeq[CHOOSE i \in DOMAIN UpperSeq : UpperSeq[i] = c]
    ELSE c

RECURSIVE Concat(_)
Concat(ss) == IF ss = <<>> THEN <<>> ELSE Head(ss) \o Concat(Tail(ss))

----------------------------------------------------------------------------
(* HtmlToken (token.rs 10-25) and Option<HtmlToken>                        *)

NoToken == [kind |-> "None"]
Eof == [kind |-> "Eof"]
Char(c) == [kind |-> "Char", c |-> c]
StartTag(tag, self_closing, attributes) ==
    [kind |-> "StartTag", tag |-> tag, self_closing |-> self_closing,
     attributes |-> attributes]
EndTag(tag) == [kind |-> "EndTag", tag |-> tag]

\* HtmlTagAttribute::new and add_char
NewAttribute == [name |-> <<>>, value |-> <<>>]

\* an add_char that pushes every character onto the name
add_char_to_name(a, c, field) == [a EXCEPT !.name = Append(@, c)]

add_char(a, c, field) ==
    IF field = "Name" THEN [a EXCEPT !.name = Append(@, c)]
    ELSE [a EXCEPT !.value = Append(@, c)]

----------------------------------------------------------------------------
(* HtmlTokenizer                                                           *)

NewTokenizer ==
    [state |-> "Data", pos |-> 0, reconsume |-> FALSE,
     latest_token |-> NoToken, buf |-> <<>>]

is_eof(tk, inp) == tk.pos > Len(inp)

\* the guard written with is_eof: `self.pos > self.input.len()`
no_more_input_is_eof(tk, inp) == is_eof(tk, inp)

\* the guard at the head of next(): `self.pos >= self.input.len()`
no_more_input(tk, inp) == tk.pos >= Len(inp)

\* a consume_next_character that advances when it reconsumes
consume_next_character_advancing(tk, inp) ==
    LET t2 == [tk EXCEPT !.reconsume = FALSE, !.pos = @ + 1]
        ok == t2.pos >= 1 /\ t2.pos <= Len(inp)
    IN  [tk |-> t2, ok |-> ok, c |-> IF ok THEN inp[t2.pos] ELSE ""]

\* consume_next_character: the character read, the tokenizer afterwards, and
\* whether the index `self.pos - 1` was outside the input (a panic)
consume_next_character(tk, inp) ==
    LET t2 == IF tk.reconsume THEN [tk EXCEPT !.reconsume = FALSE]
              ELSE [tk EXCEPT !.pos = @ + 1]
        ok == t2.pos >= 1 /\ t2.pos <= Len(inp)
    IN  [tk |-> t2, ok |-> ok, c |-> IF ok THEN inp[t2.pos] ELSE ""]

\* results of one iteration of the loop of next()
Continue == [kind |-> "continue"]
Cont(tk) == [tk |-> tk, ret |-> Continue, panic |-> FALSE]
Ret(tk, t) == [tk |-> tk, ret |-> t, panic |-> FALSE]
Panic(tk) == [tk |-> tk, ret |-> Continue, panic |-> TRUE]

create_start_tag(tk) == [tk EXCEPT !.latest_token = StartTag(<<>>, FALSE, <<>>)]
create_end_tag(tk) == [tk EXCEPT !.latest_token = EndTag(<<>>)]

IsTag(t) == t.kind \in {"StartTag", "EndTag"}

\* the helpers below answer [ok, tk]: ok is FALSE when the assert!/panic! fires
append_tag_name(tk, c) ==
    IF IsTag(tk.latest_token)
    THEN [ok |-> TRUE, tk |-> [tk EXCEPT !.latest_token.tag = Append(@, c)]]
    ELSE [ok |-> FALSE, tk |-> tk]

start_new_attribute(tk) ==
    IF tk.latest_token.kind = "StartTag"
    THEN [ok |-> TRUE,
          tk |-> [tk EXCEPT !.latest_token.attributes = Append(@, NewAttribute)]]
    ELSE [ok |-> FALSE, tk |-> tk]

\* an append_character_to_attribute that folds the character for both fields
append_character_to_attribute_folded(tk, c, field) ==
    IF tk.latest_token.kind = "StartTag" /\ Len(tk.latest_token.attributes) > 0
    THEN LET n == Len(tk.latest_token.attributes)
         IN  [ok |-> TRUE,
              tk |-> [tk EXCEPT !.latest_token.attributes[n] =
                                    add_char(@, to_ascii_lowercase(c), field)]]
    ELSE [ok |-> FALSE, tk |-> tk]

append_character_to_attribute(tk, c, field) ==
    IF tk.latest_token.kind = "StartTag" /\ Len(tk.latest_token.attributes) > 0
    THEN LET n == Len(tk.latest_token.attributes)
         IN  [ok |-> TRUE,
              tk |-> [tk EXCEPT !.latest_token.attributes[n] = add_char(@, c, field)]]
    ELSE [ok |-> FALSE, tk |-> tk]

set_self_closing_flag(tk) ==
    IF tk.latest_token.kind = "StartTag"
    THEN [ok |-> TRUE, tk |-> [tk EXCEPT !.latest_token.self_closing = TRUE]]
    ELSE [ok |-> FALSE, tk |-> tk]

\* emit_latest_token, with the switch to `st` that precedes it
emit_latest_token(tk, st) ==
    IF tk.latest_token.kind = "None" THEN Panic(tk)
    ELSE Ret([tk EXCEPT !.latest_token = NoToken, !.state = st], tk.latest_token)

ContIf(h) == IF h.ok THEN Cont(h.tk) ELSE Panic(h.tk)

SetState(tk, st) == [tk EXCEPT !.state = st]
Reconsume(tk, st) == [tk EXCEPT !.reconsume = TRUE, !.state = st]

\* a Data state that skips white space instead of emitting it
DataStateSkipsSpace(tk, c, inp) ==
    IF c = "<" THEN Cont(SetState(tk, "TagOpen"))
    ELSE IF is_eof(tk, inp) THEN Ret(tk, Eof)
    ELSE IF c = " " THEN Cont(tk)
    ELSE Ret(tk, Char(c))

\* the arm State::Data of next()
DataState(tk, c, inp) ==
    IF c = "<" THEN Cont(SetState(tk, "TagOpen"))
    ELSE IF is_eof(tk, inp) THEN Ret(tk, Eof)
    ELSE Ret(tk, Char(c))

\* one iteration of the `loop` of next(): `tk` is the tokenizer after
\* consume_next_character has returned `c`
TokenizerStep(tk, c, inp) ==
    CASE tk.state = "Data" -> DataState(tk, c, inp)
      [] tk.state = "TagOpen" ->
            IF c = "/" THEN Cont(SetState(tk, "EndTagOpen"))
            ELSE IF is_ascii_alphabetic(c)
                 THEN Cont(create_start_tag(Reconsume(tk, "TagName")))
            ELSE IF is_eof(tk, inp) THEN Ret(tk, Eof)
            ELSE Cont(Reconsume(tk, "Data"))
      [] tk.state = "EndTagOpen" ->
            IF is_eof(tk, inp) THEN Ret(tk, Eof)
            ELSE IF is_ascii_alphabetic(c)
                 THEN Cont(create_end_tag(Reconsume(tk, "TagName")))
            ELSE Cont(tk)
      [] tk.state = "TagName" ->
            IF c = " " THEN Cont(SetState(tk, "BeforeAttributeName"))
            ELSE IF c = "/" THEN Cont(SetState(tk, "SelfClosingStartTag"))
            ELSE IF c = ">" THEN emit_latest_token(tk, "Data")
            ELSE IF is_ascii_uppercase(c)
                 THEN ContIf(append_tag_name(tk, to_ascii_lowercase(c)))
            ELSE IF is_eof(tk, inp) THEN Ret(tk, Eof)
            ELSE ContIf(append_tag_name(tk, c))
      [] tk.state = "BeforeAttributeName" ->
            IF c = "/" \/ c = ">" \/ is_eof(tk, inp)
            THEN Cont(Reconsume(tk, "AfterAttributeName"))
            ELSE ContIf(start_new_attribute(Reconsume(tk, "AttributeName")))
      [] tk.state = "AttributeName" ->
            IF c = " " \/ c = "/" \/ c = ">" \/ is_eof(tk, inp)
            THEN Cont(Reconsume(tk, "AfterAttributeName"))
            ELSE IF c = "=" THEN Cont(SetState(tk, "BeforeAttributeValue"))
            ELSE IF is_ascii_uppercase(c)
                 THEN ContIf(append_character_to_attribute(
                                 tk, to_ascii_lowercase(c), "Name"))
            ELSE ContIf(append_character_to_attribute(tk, c, "Name"))
      [] tk.state = "AfterAttributeName" ->
            IF c = " " THEN Cont(tk)
            ELSE IF c = "/" THEN Cont(SetState(tk, "SelfClosingStartTag"))
            ELSE IF c = "=" THEN Cont(SetState(tk, "BeforeAttributeValue"))
            ELSE IF c = ">" THEN emit_latest_token(tk, "Data")
            ELSE IF is_eof(tk, inp) THEN Ret(tk, Eof)
            ELSE ContIf(start_new_attribute(Reconsume(tk, "AttributeName")))
      [] tk.state = "BeforeAttributeValue" ->
            IF c = " " THEN Cont(tk)
            ELSE IF c = "\"" THEN Cont(SetState(tk, "AttributeValueDoubleQuoted"))
            ELSE IF c = "'" THEN Cont(SetState(tk, "AttributeValueSingleQuoted"))
            ELSE Cont(Reconsume(tk, "AttributeValueUnQuoted"))
      [] tk.state = "AttributeValueDoubleQuoted" ->
            IF c = "\"" THEN Cont(SetState(tk, "AfterAttributeValueQuoted"))
            ELSE IF is_eof(tk, inp) THEN Ret(tk, Eof)
            ELSE ContIf(append_character_to_attribute(tk, c, "Value"))
      [] tk.state = "AttributeValueSingleQuoted" ->
            IF c = "'" THEN Cont(SetState(tk, "AfterAttributeValueQuoted"))
            ELSE IF is_eof(tk, inp) THEN Ret(tk, Eof)
            ELSE ContIf(append_character_to_attribute(tk, c, "Value"))
      [] tk.state = "AttributeValueUnQuoted" ->
            IF c = " " THEN Cont(SetState(tk, "BeforeAttributeName"))
            ELSE IF c = ">" THEN emit_latest_token(tk, "Data")
            ELSE IF is_eof(tk, inp) THEN Ret(tk, Eof)
            ELSE ContIf(append_character_to_attribute(tk, c, "Value"))
      [] tk.state = "AfterAttributeValueQuoted" ->
            IF c = " " THEN Cont(SetState(tk, "BeforeAttributeName"))
            ELSE IF c = "/" THEN Cont(SetState(tk, "SelfClosingStartTag"))
            ELSE IF c = ">" THEN emit_latest_token(tk, "Data")
            ELSE IF is_eof(tk, inp) THEN Ret(tk, Eof)
            ELSE Cont(Reconsume(tk, "BeforeAttributeName"))
      [] tk.state = "SelfClosingStartTag" ->
            IF c = ">"
            THEN LET h == set_self_closing_flag(tk)
                 IN  IF h.ok THEN emit_latest_token(h.tk, "Data") ELSE Panic(tk)
            ELSE IF is_eof(tk, inp) THEN Ret(tk, Eof)
            ELSE Cont(tk)
      [] tk.state = "ScriptData" ->
            IF c = "<" THEN Cont(SetState(tk, "ScriptDataLessThanSign"))
            ELSE IF is_eof(tk, inp) THEN Ret(tk, Eof)
            ELSE Ret(tk, Char(c))
      [] tk.state = "ScriptDataLessThanSign" ->
            IF c = "/"
            THEN Cont([tk EXCEPT !.buf = <<>>, !.state = "ScriptDataEndTagOpen"])
            ELSE Ret(Reconsume(tk, "ScriptData"), Char("<"))
      [] tk.state = "ScriptDataEndTagOpen" ->
            \* the switch to ScriptDataEndTagName for a letter is overwritten
            \* by the unconditional assignments that follow it
            Ret(Reconsume(tk, "ScriptData"), Char("<"))
      [] tk.state = "ScriptDataEndTagName" ->
            IF c = ">" THEN emit_latest_token(tk, "Data")
            ELSE IF is_ascii_alphabetic(c)
                 THEN ContIf(append_tag_name([tk EXCEPT !.buf = Append(@, c)],
                                             to_ascii_lowercase(c)))
            ELSE Cont([tk EXCEPT !.state = "TemporaryBuffer",
                                 !.buf = Append(<<"<", "/">> \o @, c)])
      [] tk.state = "TemporaryBuffer" ->
            IF Len(tk.buf) = 0 THEN Cont(Reconsume(tk, "ScriptData"))
            ELSE Ret([tk EXCEPT !.reconsume = TRUE, !.buf = Tail(@)],
                     Char(Head(tk.buf)))

\* the `loop` of next(): iterate until a token is returned or a panic
RECURSIVE TokenizerLoop(_, _)
TokenizerLoop(tk, inp) ==
    LET r == consume_next_character(tk, inp)
    IN  IF ~r.ok THEN Panic(r.tk)
        ELSE LET s == TokenizerStep(r.tk, r.c, inp)
             IN  IF s.panic \/ s.ret # Continue THEN s
                 ELSE TokenizerLoop(s.tk, inp)

\* HtmlTokenizer::next
TokenizerNext(tk, inp) ==
    IF no_more_input(tk, inp) THEN Ret(tk, NoToken)
    ELSE TokenizerLoop(tk, inp)

\* the calls of consume_next_character that the `loop` of next() makes from
\* `tk` on, in order: for each call the flag and position before it, the flag
\* and position after it, and the character it returned
RECURSIVE ReadsOfLoop(_, _)
ReadsOfLoop(tk, inp) ==
    LET r == consume_next_character(tk, inp)
        read == [reconsume |-> tk.reconsume, pos |-> tk.pos,
                 reconsume_after |-> r.tk.reconsume, pos_after |-> r.tk.pos,
                 c |-> r.c]
    IN  IF ~r.ok THEN <<read>>
        ELSE LET s == TokenizerStep(r.tk, r.c, inp)
             IN  IF s.panic \/ s.ret # Continue THEN <<read>>
                 ELSE <<read>> \o ReadsOfLoop(s.tk, inp)

\* the calls of consume_next_character made by one call of next()
ReadsOfNext(tk, inp) ==
    IF no_more_input(tk, inp) THEN <<>> ELSE ReadsOfLoop(tk, inp)

----------------------------------------------------------------------------
(* Node tree (node.rs).  A cell is addressed by its index in `nodes`; 0 is *)
(* None for the owning edges and an empty Weak for the back-references.    *)

\* a from_str whose closed set lacks "head"
ElementKindFromStrNoHead(s) ==
    CASE s = <<"h","t","m","l">> -> "Html"
      [] s = <<"s","t","y","l","e">> -> "Style"
      [] s = <<"s","c","r","i","p","t">> -> "Style"
      [] s = <<"b","o","d","y">> -> "Body"
      [] s = <<"p">> -> "P"
      [] s = <<"a">> -> "A"
      [] OTHER -> "Err"

\* impl FromStr for ElementKind ("Err" is the Err(..) result)
ElementKindFromStr(s) ==
    CASE s = <<"h","t","m","l">> -> "Html"
      [] s = <<"h","e","a","d">> -> "Head"
      [] s = <<"s","t","y","l","e">> -> "Style"
      [] s = <<"s","c","r","i","p","t">> -> "Style"
      [] s = <<"b","o","d","y">> -> "Body"
      [] s = <<"p">> -> "P"
      [] s = <<"a">> -> "A"
      [] OTHER -> "Err"

\* Node::new
NewNode(kind, element_kind, attributes, text) ==
    [kind |-> kind, element_kind |-> element_kind, attributes |-> attributes,
     text |-> text, parent |-> 0, first_child |-> 0, last_child |-> 0,
     previous_sibling |-> 0, next_sibling |-> 0]

\* Window::new
NewWindow == <<NewNode("Document", "None", <<>>, <<>>)>>

\* Node::get_element_kind
get_element_kind(n) == IF n.kind = "Element" THEN n.element_kind ELSE "None"

\* attaching without the walk: the new node is linked after the first child
LastSiblingNoWalk(ns, n) == n

\* the `loop` of insert_element / insert_char that walks next_sibling from the
\* first child to the tail of the sibling chain
RECURSIVE LastSibling(_, _)
LastSibling(ns, n) ==
    IF ns[n].next_sibling # 0 THEN LastSibling(ns, ns[n].next_sibling) ELSE n

\* a linking that leaves the parent reference of the new node empty
AppendChildNoParent(ns, current, node) ==
    LET id == Len(ns) + 1
        first == ns[current].first_child
        last == IF first # 0 THEN LastSibling(ns, first) ELSE 0
        linked == IF first # 0
                  THEN [ns EXCEPT ![last].next_sibling = id]
                  ELSE [ns EXCEPT ![current].first_child = id]
        node2 == [node EXCEPT !.previous_sibling = last]
    IN  Append([linked EXCEPT ![current].last_child = id], node2)

\* the linking shared by insert_element and insert_char: `node` becomes the
\* cell Len(ns) + 1, the last child of `current`
AppendChild(ns, current, node) ==
    LET id == Len(ns) + 1
        first == ns[current].first_child
        last == IF first # 0 THEN LastSibling(ns, first) ELSE 0
        linked == IF first # 0
                  THEN [ns EXCEPT ![last].next_sibling = id]
                  ELSE [ns EXCEPT ![current].first_child = id]
        node2 == [node EXCEPT !.previous_sibling = last, !.parent = current]
    IN  Append([linked EXCEPT ![current].last_child = id], node2)

\* a current node that is always the Document
CurrentNodeDocument(stack) == 1

\* the current node: the top of the stack, or the document
CurrentNode(stack) == IF stack = <<>> THEN 1 ELSE stack[Len(stack)]

\* a pop_until that pops nothing
pop_until_nothing(ns, stack, kind) == stack

\* HtmlParser::pop_until
RECURSIVE pop_until(_, _, _)
pop_until(ns, stack, kind) ==
    IF stack = <<>> THEN stack
    ELSE LET top == stack[Len(stack)]
             rest == SubSeq(stack, 1, Len(stack) - 1)
         IN  IF get_element_kind(ns[top]) = kind THEN rest
             ELSE pop_until(ns, rest, kind)

\* HtmlParser::contain_in_stack
contain_in_stack(ns, stack, kind) ==
    \E i \in DOMAIN stack : get_element_kind(ns[stack[i]]) = kind

\* HtmlParser::pop_current_node: [popped, stack]
pop_current_node(ns, stack, kind) ==
    IF stack # <<>> /\ get_element_kind(ns[stack[Len(stack)]]) = kind
    THEN [popped |-> TRUE, stack |-> SubSeq(stack, 1, Len(stack) - 1)]
    ELSE [popped |-> FALSE, stack |-> stack]

----------------------------------------------------------------------------
(* HtmlParser.  `st` is the parser with the local `token` of               *)
(* construct_tree: [nodes, stack, mode, orig, tok, tk, pulled, pc].        *)

\* `token = self.tokenizer.next()`
Advance(st, inp) ==
    LET r == TokenizerNext(st.tk, inp)
    IN  IF st.pc # "loop" THEN st
        ELSE IF r.panic THEN [st EXCEPT !.pc = "panic"]
        ELSE [st EXCEPT !.tk = r.tk, !.tok = r.ret, !.pulled = Append(@, r.ret)]

SetMode(st, m) == [st EXCEPT !.mode = m]
PopUntil(st, kind) == [st EXCEPT !.stack = pop_until(st.nodes, @, kind)]
ReturnWindow(st) == [st EXCEPT !.pc = "done"]

\* an insert_element that leaves the stack of open elements as it is
insert_element_no_push(st, tag, attributes) ==
    LET k == ElementKindFromStr(tag)
    IN  IF k = "Err" THEN [st EXCEPT !.pc = "panic_element"]
        ELSE [st EXCEPT
                !.nodes = AppendChild(@, CurrentNode(st.stack),
                                      NewNode("Element", k, attributes, <<>>))]

\* HtmlParser::insert_element; the `expect` of Element::new on an unsupported
\* tag is the outcome "panic_element"
insert_element(st, tag, attributes) ==
    LET k == ElementKindFromStr(tag)
    IN  IF k = "Err" THEN [st EXCEPT !.pc = "panic_element"]
        ELSE [st EXCEPT
                !.nodes = AppendChild(@, CurrentNode(st.stack),
                                      NewNode("Element", k, attributes, <<>>)),
                !.stack = Append(@, Len(st.nodes) + 1)]

\* HtmlParser::insert_char: the push on a Text current node is made on the
\* clone that node_kind() returns, so the tree is left as it is
insert_char(st, c) ==
    IF st.stack = <<>> THEN st
    ELSE IF st.nodes[CurrentNode(st.stack)].kind = "Text" THEN st
    ELSE IF c = "\n" \/ c = " " THEN st
    ELSE [st EXCEPT
            !.nodes = AppendChild(@, CurrentNode(st.stack),
                                  NewNode("Text", "None", <<>>, <<c>>)),
            !.stack = Append(@, Len(st.nodes) + 1)]

IsWhitespace(c) == c = " " \/ c = "\n"
IsEnd(t) == t.kind \in {"Eof", "None"}

T_html == <<"h","t","m","l">>
T_head == <<"h","e","a","d">>
T_body == <<"b","o","d","y">>
T_style == <<"s","t","y","l","e">>
T_script == <<"s","c","r","i","p","t">>

\* one iteration of the `while token.is_some()` loop of construct_tree
ConstructTreeStep(st, inp) ==
    LET t == st.tok IN
    CASE st.mode = "Initial" ->
            IF t.kind = "Char" THEN Advance(st, inp)
            ELSE SetMode(st, "BeforeHtml")
      [] st.mode = "BeforeHtml" ->
            IF t.kind = "Char" /\ IsWhitespace(t.c) THEN Advance(st, inp)
            ELSE IF t.kind = "StartTag" /\ t.tag = T_html
                 THEN Advance(SetMode(insert_element(st, t.tag, t.attributes),
                                      "BeforeHead"), inp)
            ELSE IF IsEnd(t) THEN ReturnWindow(st)
            ELSE SetMode(insert_element(st, T_html, <<>>), "BeforeHead")
      [] st.mode = "BeforeHead" ->
            IF t.kind = "Char" /\ IsWhitespace(t.c) THEN Advance(st, inp)
            ELSE IF t.kind = "StartTag" /\ t.tag = T_head
                 THEN Advance(SetMode(insert_element(st, t.tag, t.attributes),
                                      "InHead"), inp)
            ELSE IF IsEnd(t) THEN ReturnWindow(st)
            ELSE SetMode(insert_element(st, T_head, <<>>), "InHead")
      [] st.mode = "InHead" ->
            IF t.kind = "Char" /\ IsWhitespace(t.c) THEN Advance(st, inp)
            ELSE IF t.kind = "StartTag" /\ (t.tag = T_style \/ t.tag = T_script)
                 THEN Advance([insert_element(st, t.tag, t.attributes)
                                 EXCEPT !.orig = st.mode, !.mode = "Text"], inp)
            ELSE IF t.kind = "StartTag"
                    /\ (t.tag = T_body \/ ElementKindFromStr(t.tag) # "Err")
                 THEN SetMode(PopUntil(st, "Head"), "AfterHead")
            ELSE IF t.kind = "EndTag" /\ t.tag = T_head
                 THEN LET a == Advance(SetMode(st, "AfterHead"), inp)
                      IN  IF a.pc = "panic" THEN a ELSE PopUntil(a, "Head")
            ELSE IF IsEnd(t) THEN ReturnWindow(st)
            ELSE Advance(st, inp)
      [] st.mode = "AfterHead" ->
            IF t.kind = "Char" /\ IsWhitespace(t.c) THEN Advance(st, inp)
            ELSE IF t.kind = "StartTag" /\ t.tag = T_body
                 THEN Advance(SetMode(insert_element(st, t.tag, t.attributes),
                                      "InHead"), inp)
            ELSE IF IsEnd(t) THEN ReturnWindow(st)
            ELSE SetMode(insert_element(st, T_body, <<>>), "InHead")
      [] st.mode = "InBody" ->
            IF t.kind = "EndTag" /\ t.tag = T_body
            THEN LET a == Advance(SetMode(st, "AfterBody"), inp)
                 IN  IF a.pc = "panic" THEN a
                     ELSE IF ~contain_in_stack(a.nodes, a.stack, "Body") THEN a
                     ELSE PopUntil(a, "Body")
            ELSE IF t.kind = "EndTag" /\ t.tag = T_html
                 THEN LET b == pop_current_node(st.nodes, st.stack, "Body")
                          h == pop_current_node(st.nodes, b.stack, "Html")
                      IN  IF ~b.popped THEN Advance(st, inp)
                          ELSE IF ~h.popped THEN [st EXCEPT !.pc = "panic"]
                          ELSE [st EXCEPT !.mode = "AfterBody", !.stack = h.stack]
            ELSE IF t.kind = "EndTag" THEN Advance(st, inp)
            ELSE IF IsEnd(t) THEN ReturnWindow(st)
            ELSE st
      [] st.mode = "Text" ->
            IF IsEnd(t) THEN ReturnWindow(st)
            ELSE IF t.kind = "EndTag" /\ t.tag = T_style
                 THEN Advance(SetMode(PopUntil(st, "Style"), st.orig), inp)
            ELSE IF t.kind = "EndTag" /\ t.tag = T_script
                 THEN Advance(SetMode(PopUntil(st, "Script"), st.orig), inp)
            ELSE IF t.kind = "Char" THEN Advance(insert_char(st, t.c), inp)
            ELSE SetMode(st, st.orig)
      [] st.mode = "AfterBody" ->
            IF t.kind = "Char" THEN Advance(st, inp)
            ELSE IF t.kind = "EndTag" /\ t.tag = T_html
                 THEN Advance(SetMode(st, "AfterAfterBody"), inp)
            ELSE IF IsEnd(t) THEN ReturnWindow(st)
            ELSE SetMode(st, "InBody")
      [] st.mode = "AfterAfterBody" ->
            IF t.kind = "Char" THEN Advance(st, inp)
            ELSE IF IsEnd(t) THEN ReturnWindow(st)
            ELSE SetMode(st, "InBody")

----------------------------------------------------------------------------
(* CssToken (css/token.rs 4-18); None is NoToken                           *)

HashToken(s) == [kind |-> "HashToken", value |-> s]
Delim(c) == [kind |-> "Delim", value |-> c]
Colon == [kind |-> "Colon"]
SemiColon == [kind |-> "SemiColon"]
OpenParenthesis == [kind |-> "OpenParenthesis"]
CloseParenthesis == [kind |-> "CloseParenthesis"]
OpenCurly == [kind |-> "OpenCurly"]
CloseCurly == [kind |-> "CloseCurly"]
Ident(s) == [kind |-> "Ident", value |-> s]
StringToken(s) == [kind |-> "StringToken", value |-> s]
AtKeyword(s) == [kind |-> "AtKeyword", value |-> s]

\* Number(f64): the value as its integer part and the decimal digits after
\* the point, without the trailing zeros that do not change it
RECURSIVE StripZeros(_)
StripZeros(ds) ==
    IF ds # <<>> /\ ds[Len(ds)] = 0 THEN StripZeros(SubSeq(ds, 1, Len(ds) - 1))
    ELSE ds

Number(int, frac) == [kind |-> "Number", int |-> int, frac |-> StripZeros(frac)]

----------------------------------------------------------------------------
(* CssTokenizer.  `pos` counts the characters before the current one, as   *)
(* the index of the Vec<char> does: the current character is inp[pos + 1]. *)

DigitSeq == <<"0", "1", "2", "3", "4", "5", "6", "7", "8", "9">>
is_ascii_digit(c) == c \in Range(DigitSeq)
to_digit(c) == (CHOOSE i \in DOMAIN DigitSeq : DigitSeq[i] = c) - 1
is_ascii_alphanumeric(c) == is_ascii_alphabetic(c) \/ is_ascii_digit(c)

\* char::is_whitespace on the characters of the input texts
is_whitespace(c) == c \in {" ", "\n", "\t", "\r"}

\* CssTokenizer::consume_string_at: [s, pos], pos at the closing quote or at
\* the end of the input
consume_string_at(inp, start) ==
    LET ending == inp[start + 1]
        scan[pos \in 0..Len(inp)] ==
            IF pos < Len(inp) /\ inp[pos + 1] # ending THEN scan[pos + 1] ELSE pos
        end == scan[start + 1]
    IN  [s |-> SubSeq(inp, start + 2, end), pos |-> end]

\* CssTokenizer::consume_numeric_at: [int, frac, pos]
consume_numeric_at(inp, start) ==
    LET scan[pos \in 0..Len(inp), int \in Nat, frac \in Seq(0..9),
             floating \in BOOLEAN] ==
            IF pos >= Len(inp) THEN [int |-> int, frac |-> frac, pos |-> pos]
            ELSE IF is_ascii_digit(inp[pos + 1])
                 THEN IF floating
                      THEN scan[pos + 1, int, Append(frac, to_digit(inp[pos + 1])),
                                floating]
                      ELSE scan[pos + 1, int * 10 + to_digit(inp[pos + 1]), frac,
                                floating]
            ELSE IF inp[pos + 1] = "." /\ ~floating THEN scan[pos + 1, int, frac, TRUE]
            ELSE [int |-> int, frac |-> frac, pos |-> pos]
    IN  scan[start, 0, <<>>, FALSE]

\* a consume_ident_at that does not take `-` as part of an identifier
consume_ident_at_no_hyphen(inp, start) ==
    LET scan[pos \in 0..Len(inp)] ==
            IF pos < Len(inp)
               /\ (is_ascii_alphanumeric(inp[pos + 1]) \/ inp[pos + 1] \in {"_", "#"})
            THEN scan[pos + 1]
            ELSE pos
        end == scan[start]
    IN  [s |-> SubSeq(inp, start + 1, end), pos |-> end]

\* CssTokenizer::consume_ident_at: [s, pos]
consume_ident_at(inp, start) ==
    LET scan[pos \in 0..Len(inp)] ==
            IF pos < Len(inp)
               /\ (is_ascii_alphanumeric(inp[pos + 1])
                   \/ inp[pos + 1] \in {"-", "_", "#"})
            THEN scan[pos + 1]
            ELSE pos
        end == scan[start]
    IN  [s |-> SubSeq(inp, start + 1, end), pos |-> end]

\* results of CssTokenizer::next: [pos, ret, panic]
CssRet(pos, t) == [pos |-> pos, ret |-> t, panic |-> FALSE]
CssPanic(pos) == [pos |-> pos, ret |-> NoToken, panic |-> TRUE]

\* the token that starts with the character c at pos, c not white space
CssTokenAt(c, pos, inp) ==
    CASE c = "(" -> CssRet(pos + 1, OpenParenthesis)
      [] c = ")" -> CssRet(pos + 1, CloseParenthesis)
      [] c = "," -> CssRet(pos + 1, Delim(","))
      [] c = "." -> CssRet(pos + 1, Delim("."))
      [] c = ":" -> CssRet(pos + 1, Colon)
      [] c = ";" -> CssRet(pos + 1, SemiColon)
      [] c = "{" -> CssRet(pos + 1, OpenCurly)
      [] c = "}" -> CssRet(pos + 1, CloseCurly)
      [] c \in {"\"", "'"} ->
              LET r == consume_string_at(inp, pos)
              IN  CssRet(r.pos + 1, StringToken(r.s))
      [] is_ascii_digit(c) ->
              LET r == consume_numeric_at(inp, pos)
              IN  CssRet(r.pos, Number(r.int, r.frac))
      [] c = "#" ->
              LET r == consume_ident_at(inp, pos)
              IN  CssRet(r.pos, HashToken(r.s))
      [] c = "-" ->
              LET r == consume_ident_at(inp, pos)
              IN  CssRet(r.pos, Ident(r.s))
      [] c = "@" ->
              IF pos + 1 < Len(inp) /\ is_ascii_alphabetic(inp[pos + 2])
              THEN LET r == consume_ident_at(inp, pos + 1)
                   IN  CssRet(r.pos, AtKeyword(r.s))
              ELSE CssRet(pos + 1, Delim("@"))
      [] is_ascii_alphabetic(c) \/ c = "_" ->
              LET r == consume_ident_at(inp, pos)
              IN  CssRet(r.pos, Ident(r.s))
      [] OTHER -> CssPanic(pos)

\* impl Iterator for CssTokenizer: next, called with self.pos = start
CssTokenizerNext(start, inp) ==
    LET next[pos \in 0..Len(inp)] ==
            IF pos >= Len(inp) THEN CssRet(pos, NoToken)
            ELSE IF is_whitespace(inp[pos + 1]) THEN next[pos + 1]
            ELSE CssTokenAt(inp[pos + 1], pos, inp)
    IN  next[start]

----------------------------------------------------------------------------
(* Peekable<CssTokenizer>: the tokenizer and the slot of the item that     *)
(* peek() has taken from it                                                *)

NotPeeked == [kind |-> "NotPeeked"]

\* CssTokenizer::new
NewCssTokenizer == [pos |-> 0]

\* Iterator::peekable (CssParser::new)
Peekable(tk) == [pos |-> tk.pos, peeked |-> NotPeeked]

\* Peekable::peek: [p, tok, panic]
Peek(p, inp) ==
    IF p.peeked # NotPeeked THEN [p |-> p, tok |-> p.peeked, panic |-> FALSE]
    ELSE LET r == CssTokenizerNext(p.pos, inp)
         IN  IF r.panic THEN [p |-> p, tok |-> NoToken, panic |-> TRUE]
             ELSE [p |-> [pos |-> r.pos, peeked |-> r.ret], tok |-> r.ret,
                   panic |-> FALSE]

\* Peekable::next: [p, tok, panic]
PeekableNext(p, inp) ==
    IF p.peeked # NotPeeked
    THEN [p |-> [p EXCEPT !.peeked = NotPeeked], tok |-> p.peeked, panic |-> FALSE]
    ELSE LET r == CssTokenizerNext(p.pos, inp)
         IN  IF r.panic THEN [p |-> p, tok |-> NoToken, panic |-> TRUE]
             ELSE [p |-> [p EXCEPT !.pos = r.pos], tok |-> r.ret, panic |-> FALSE]

----------------------------------------------------------------------------
(* CssParser (css/cssom.rs).  `cp` is the parser with the locals of the    *)
(* calls in progress: [tokenizer, pc, rules, rule, at_rule, selector,       *)
(* declarations, declaration].                                             *)

TypeSelector(s) == [kind |-> "TypeSelector", value |-> s]
ClassSelector(s) == [kind |-> "ClassSelector", value |-> s]
IdSelector(s) == [kind |-> "IdSelector", value |-> s]
UnknownSelector == [kind |-> "UnknownSelector"]

\* QualifiedRule::new, Declaration with its fields set
NewQualifiedRule == [selector |-> TypeSelector(<<>>), declarations |-> <<>>]
QualifiedRule(selector, declarations) ==
    [selector |-> selector, declarations |-> declarations]
Declaration(property, value) == [property |-> property, value |-> value]
NewDeclaration == Declaration(<<>>, Ident(<<>>))

\* CssParser::new, before parse_stylesheet is called
NewCssParser ==
    [tokenizer |-> Peekable(NewCssTokenizer), pc |-> "start", rules |-> <<>>,
     rule |-> NewQualifiedRule, at_rule |-> FALSE, selector |-> UnknownSelector,
     declarations |-> <<>>, declaration |-> NewDeclaration]

\* CssParser::consume_ident: [p, panic, s]
consume_ident(p, inp) ==
    LET n == PeekableNext(p, inp)
    IN  IF n.panic \/ n.tok.kind # "Ident"
        THEN [p |-> n.p, panic |-> TRUE, s |-> <<>>]
        ELSE [p |-> n.p, panic |-> FALSE, s |-> n.tok.value]

\* CssParser::consume_component_value: [p, panic, value]
consume_component_value(p, inp) ==
    LET n == PeekableNext(p, inp)
    IN  [p |-> n.p, panic |-> n.panic \/ n.tok = NoToken, value |-> n.tok]

CssFail(cp) == [cp EXCEPT !.pc = "panic"]

\* consume_list_of_rules: one pass from the head of its loop to the call of
\* consume_qualified_rule (`let mut rule = QualifiedRule::new();`)
ListOfRulesStep(cp, inp) ==
    LET pk == Peek(cp.tokenizer, inp)
    IN  IF pk.panic THEN CssFail(cp)
        ELSE IF pk.tok = NoToken
        THEN [cp EXCEPT !.tokenizer = pk.p, !.pc = "done"]
        ELSE [cp EXCEPT !.tokenizer = pk.p, !.pc = "rule",
                        !.rule = NewQualifiedRule,
                        !.at_rule = (pk.tok.kind = "AtKeyword")]

\* consume_list_of_rules, lines 33-42: consume_qualified_rule has returned
\* Some(cp.rule) or None
RuleReturns(cp, some) ==
    IF cp.at_rule THEN [cp EXCEPT !.pc = "rules"]
    ELSE IF some THEN [cp EXCEPT !.rules = Append(@, cp.rule), !.pc = "rules"]
    ELSE [cp EXCEPT !.pc = "done"]

\* consume_selector, from its call to its next use of the tokenizer: t is the
\* token that its `self.tokenizer.next()` has returned
consume_selector(cp, t) ==
    CASE t.kind = "HashToken" ->
            [cp EXCEPT !.rule.selector = IdSelector(Tail(t.value))]
      [] t.kind = "Delim" ->
            IF t.value = "." THEN [cp EXCEPT !.pc = "selector_class"]
            ELSE CssFail(cp)
      [] t.kind = "Ident" ->
            [cp EXCEPT !.selector = TypeSelector(t.value), !.pc = "selector_type"]
      [] t.kind = "AtKeyword" ->
            [cp EXCEPT !.selector = UnknownSelector, !.pc = "skip"]
      [] OTHER -> [cp EXCEPT !.pc = "selector_unknown"]

\* consume_qualified_rule: one iteration of its loop, up to the call of
\* consume_list_of_declarations (`let mut declarations = Vec::new();`) or
\* into consume_selector
QualifiedRuleStep(cp, inp) ==
    LET pk == Peek(cp.tokenizer, inp)
        n == PeekableNext(pk.p, inp)
    IN  IF pk.panic THEN CssFail(cp)
        ELSE IF pk.tok = NoToken
        THEN RuleReturns([cp EXCEPT !.tokenizer = pk.p], FALSE)
        ELSE IF pk.tok = OpenCurly
        THEN [cp EXCEPT !.tokenizer = n.p, !.declarations = <<>>,
                        !.pc = "declarations"]
        ELSE consume_selector([cp EXCEPT !.tokenizer = n.p], n.tok)

\* consume_selector, line 79: `Selector::ClassSelector(self.consume_ident())`
SelectorClassStep(cp, inp) ==
    LET i == consume_ident(cp.tokenizer, inp)
    IN  IF i.panic THEN CssFail(cp)
        ELSE [cp EXCEPT !.tokenizer = i.p, !.rule.selector = ClassSelector(i.s),
                        !.pc = "rule"]

\* consume_selector, line 85: `if self.tokenizer.peek() == Some(&CssToken::Colon)`
SelectorTypeStep(cp, inp) ==
    LET pk == Peek(cp.tokenizer, inp)
    IN  IF pk.panic THEN CssFail(cp)
        ELSE IF pk.tok = Colon THEN [cp EXCEPT !.tokenizer = pk.p, !.pc = "skip"]
        ELSE [cp EXCEPT !.tokenizer = pk.p, !.rule.selector = cp.selector,
                        !.pc = "rule"]

\* consume_selector, lines 102-103: `self.tokenizer.next();`
SelectorUnknownStep(cp, inp) ==
    LET n == PeekableNext(cp.tokenizer, inp)
    IN  IF n.panic THEN CssFail(cp)
        ELSE [cp EXCEPT !.tokenizer = n.p, !.rule.selector = UnknownSelector,
                        !.pc = "rule"]

\* consume_selector, lines 86 and 95: the test of the `while` loop
SkipPeekStep(cp, inp) ==
    LET pk == Peek(cp.tokenizer, inp)
    IN  IF pk.panic THEN CssFail(cp)
        ELSE IF pk.tok = OpenCurly
        THEN [cp EXCEPT !.tokenizer = pk.p, !.rule.selector = cp.selector,
                        !.pc = "rule"]
        ELSE [cp EXCEPT !.tokenizer = pk.p, !.pc = "skip_next"]

\* consume_selector, lines 87 and 96: the body of the `while` loop
SkipNextStep(cp, inp) ==
    [cp EXCEPT !.tokenizer = PeekableNext(@, inp).p, !.pc = "skip"]

\* consume_qualified_rule, lines 59-60: consume_list_of_declarations has
\* returned cp.declarations
DeclarationsReturn(cp) ==
    RuleReturns([cp EXCEPT !.rule.declarations = cp.declarations], TRUE)

\* consume_list_of_declarations: one iteration of its loop; on an Ident, into
\* consume_declaration up to `declaration.set_property(self.consume_ident())`
ListOfDeclarationsStep(cp, inp) ==
    LET pk == Peek(cp.tokenizer, inp)
        n == PeekableNext(pk.p, inp)
    IN  IF pk.panic THEN CssFail(cp)
        ELSE IF pk.tok = NoToken
        THEN DeclarationsReturn([cp EXCEPT !.tokenizer = pk.p])
        ELSE IF pk.tok = CloseCurly
        THEN DeclarationsReturn([cp EXCEPT !.tokenizer = n.p])
        ELSE IF pk.tok.kind = "Ident"
        THEN [cp EXCEPT !.tokenizer = n.p,
                        !.declaration = [NewDeclaration EXCEPT !.property = n.tok.value],
                        !.pc = "declaration_colon"]
        ELSE [cp EXCEPT !.tokenizer = n.p]

\* consume_declaration, lines 145-151: `match self.tokenizer.next()`; on
\* anything but the colon None is returned to consume_list_of_declarations
DeclarationColonStep(cp, inp) ==
    LET n == PeekableNext(cp.tokenizer, inp)
    IN  IF n.panic THEN CssFail(cp)
        ELSE IF n.tok = Colon
        THEN [cp EXCEPT !.tokenizer = n.p, !.pc = "declaration_value"]
        ELSE [cp EXCEPT !.tokenizer = n.p, !.pc = "declarations"]

\* consume_declaration, lines 153-155, and the push of line 127
DeclarationValueStep(cp, inp) ==
    LET v == consume_component_value(cp.tokenizer, inp)
    IN  IF v.panic THEN CssFail(cp)
        ELSE [cp EXCEPT !.tokenizer = v.p,
                        !.declarations =
                            Append(@, [cp.declaration EXCEPT !.value = v.value]),
                        !.pc = "declarations"]

----------------------------------------------------------------------------
(* Url (url.rs).  Option<&str> is [some, s].                               *)

Some(s) == [some |-> TRUE, s |-> s]
None == [some |-> FALSE, s |-> <<>>]

\* str::starts_with
starts_with(s, prefix) ==
    Len(s) >= Len(prefix) /\ SubSeq(s, 1, Len(prefix)) = prefix

\* str::trim_start_matches: the prefix is removed as often as it matches
RECURSIVE trim_start_matches(_, _)
trim_start_matches(s, prefix) ==
    IF starts_with(s, prefix)
    THEN trim_start_matches(SubSeq(s, Len(prefix) + 1, Len(s)), prefix)
    ELSE s

\* the index of the first c in s, 0 when there is none
FirstIndex(s, c) ==
    IF \E i \in DOMAIN s : s[i] = c
    THEN CHOOSE i \in DOMAIN s : s[i] = c /\ \A j \in 1..(i - 1) : s[j] # c
    ELSE 0

Before(s, c) == IF FirstIndex(s, c) = 0 THEN s ELSE SubSeq(s, 1, FirstIndex(s, c) - 1)
After(s, c) == SubSeq(s, FirstIndex(s, c) + 1, Len(s))

\* s.split(c).next()
split_next(s, c) == Some(Before(s, c))

\* s.split(c).nth(1)
split_nth_1(s, c) ==
    IF FirstIndex(s, c) = 0 THEN None ELSE Some(Before(After(s, c), c))

\* s.splitn(2, c).nth(0) and s.splitn(2, c).nth(1)
splitn_2_nth_0(s, c) == Some(Before(s, c))
splitn_2_nth_1(s, c) == IF FirstIndex(s, c) = 0 THEN None ELSE Some(After(s, c))

\* Option::and_then with one of the functions above, Option::unwrap_or
unwrap_or(o, default) == IF o.some THEN o.s ELSE default

T_scheme == <<"h", "t", "t", "p", ":", "/", "/">>
T_80 == <<"8", "0">>

\* Url::is_not_http
is_not_http(u) == ~starts_with(u, T_scheme)

\* Url::extract_host
extract_host(u) ==
    LET host_port == split_next(trim_start_matches(u, T_scheme), "/")
    IN  IF host_port.some THEN split_next(host_port.s, ":") ELSE None

\* Url::extract_port
extract_port(u) ==
    LET host_port == split_next(trim_start_matches(u, T_scheme), "/")
    IN  unwrap_or(IF host_port.some THEN split_nth_1(host_port.s, ":") ELSE None,
                  T_80)

\* Url::extract_path
extract_path(u) ==
    LET path_and_searchpart == splitn_2_nth_1(trim_start_matches(u, T_scheme), "/")
    IN  unwrap_or(IF path_and_searchpart.some
                  THEN splitn_2_nth_0(path_and_searchpart.s, "?")
                  ELSE None,
                  <<>>)

\* Url::extract_searchpart
extract_searchpart(u) ==
    LET path_and_searchpart == splitn_2_nth_1(trim_start_matches(u, T_scheme), "/")
    IN  unwrap_or(IF path_and_searchpart.some
                  THEN splitn_2_nth_1(path_and_searchpart.s, "?")
                  ELSE None,
                  <<>>)

\* Result<Url, String>
Ok(u, host, port, path, searchpart) ==
    [ok |-> TRUE, url |-> u, host |-> host, port |-> port, path |-> path,
     searchpart |-> searchpart]
Err(e) == [ok |-> FALSE, err |-> e]

\* the value of url_result before Url::parse is called
NotParsed == [kind |-> "None"]

\* Url::parse
UrlParse(u) ==
    IF is_not_http(u) THEN Err("Only HTTP scheme is supported.")
    ELSE IF ~extract_host(u).some THEN Err("Host parse failed")
    ELSE Ok(u, extract_host(u).s, extract_port(u), extract_path(u),
            extract_searchpart(u))

----------------------------------------------------------------------------
(* HttpResponse (http.rs).  A u32 is its decimal digits without leading    *)
(* zeros, so that no status code is out of the range of the model's        *)
(* integers.                                                               *)

\* str::trim_start, str::trim_end and str::trim
RECURSIVE trim_start(_)
trim_start(s) ==
    IF s # <<>> /\ is_whitespace(Head(s)) THEN trim_start(Tail(s)) ELSE s

RECURSIVE trim_end(_)
trim_end(s) ==
    IF s # <<>> /\ is_whitespace(s[Len(s)])
    THEN trim_end(SubSeq(s, 1, Len(s) - 1))
    ELSE s

trim(s) == trim_end(trim_start(s))

\* the index of the first occurrence of pat in s, 0 when there is none
Find(s, pat) ==
    LET at(i) == SubSeq(s, i, i + Len(pat) - 1) = pat
        starts == {i \in 1..(Len(s) - Len(pat) + 1) : at(i)}
    IN  IF starts = {} THEN 0
        ELSE CHOOSE i \in starts : \A j \in starts : i <= j

\* str::replace
RECURSIVE replace(_, _, _)
replace(s, from, to) ==
    LET i == Find(s, from)
    IN  IF i = 0 THEN s
        ELSE SubSeq(s, 1, i - 1) \o to
                \o replace(SubSeq(s, i + Len(from), Len(s)), from, to)

\* str::split_once: [some, head, rest]
split_once(s, pat) ==
    LET i == Find(s, pat)
    IN  IF i = 0 THEN [some |-> FALSE, head |-> <<>>, rest |-> <<>>]
        ELSE [some |-> TRUE, head |-> SubSeq(s, 1, i - 1),
              rest |-> SubSeq(s, i + Len(pat), Len(s))]

\* str::split(pat).collect(): the pieces of s between the occurrences of pat
RECURSIVE split(_, _)
split(s, pat) ==
    LET o == split_once(s, pat)
    IN  IF o.some THEN <<o.head>> \o split(o.rest, pat) ELSE <<s>>

\* str::splitn(2, pat).collect()
splitn_2(s, pat) ==
    LET o == split_once(s, pat)
    IN  IF o.some THEN <<o.head, o.rest>> ELSE <<s>>

\* Vec::get(i) (i from 0) with unwrap_or(&"")
get_or_empty(v, i) == IF i < Len(v) THEN v[i + 1] ELSE <<>>

\* the digits of s after its leading zeros; one zero when there is nothing else
RECURSIVE Canonical(_)
Canonical(s) ==
    IF Len(s) > 1 /\ Head(s) = "0" THEN Canonical(Tail(s)) ELSE s

\* u32::MAX, 4294967295
T_u32_max == <<"4", "2", "9", "4", "9", "6", "7", "2", "9", "5">>

\* a <= b for two digit sequences of the same length
RECURSIVE LeqDigits(_, _)
LeqDigits(a, b) ==
    IF a = <<>> THEN TRUE
    ELSE IF Head(a) # Head(b) THEN to_digit(Head(a)) < to_digit(Head(b))
    ELSE LeqDigits(Tail(a), Tail(b))

\* str::parse::<u32>: an optional `+`, then digits, of a value up to u32::MAX
parse_u32(x) ==
    LET digits == IF x # <<>> /\ Head(x) = "+" THEN Tail(x) ELSE x
        n == Canonical(digits)
    IN  IF digits = <<>> \/ \E i \in DOMAIN digits : ~is_ascii_digit(digits[i])
        THEN None
        ELSE IF Len(n) > Len(T_u32_max)
                \/ (Len(n) = Len(T_u32_max) /\ ~LeqDigits(n, T_u32_max))
        THEN None
        ELSE Some(n)

T_404 == <<"4", "0", "4">>

\* Header::new
Header(name, value) == [name |-> name, value |-> value]

\* HttpResponse::new, the body of its `for` loop: a Header, or the panic of
\* an index out of bounds
HeaderOf(header) ==
    LET splitted_header == splitn_2(header, <<":">>)
    IN  IF Len(splitted_header) < 2 THEN [panic |-> TRUE]
        ELSE [panic |-> FALSE,
              header |-> Header(trim(splitted_header[1]), trim(splitted_header[2]))]

\* Error::Network(format!("invalid http response: {}", preprocessed_response))
Network(text) == [kind |-> "Network", message |-> "invalid http response: ", text |-> text]

\* Result<HttpResponse, Error>, and the panic of HttpResponse::new
HttpOk(version, status_code, reason, headers, body) ==
    [kind |-> "Ok", version |-> version, status_code |-> status_code,
     reason |-> reason, headers |-> headers, body |-> body]
HttpErr(e) == [kind |-> "Err", error |-> e]
HttpPanic == [kind |-> "Panic"]

\* the value of http_result before HttpResponse::new is called
NoResponse == [kind |-> "None"]

\* HttpResponse::new
HttpResponseNew(raw_response) ==
    LET preprocessed_response == replace(trim_start(raw_response), <<"\r", "\n">>, <<"\n">>)
        first == split_once(preprocessed_response, <<"\n">>)
        status_line == first.head
        remaining_lines == first.rest
        second == split_once(remaining_lines, <<"\n", "\n">>)
        lines == split(second.head, <<"\n">>)
        headers == IF second.some
                   THEN [i \in DOMAIN lines |-> HeaderOf(lines[i])]
                   ELSE <<>>
        body == IF second.some THEN second.rest ELSE remaining_lines
        statuses == split(status_line, <<" ">>)
    IN  IF ~first.some THEN HttpErr(Network(preprocessed_response))
        ELSE IF \E i \in DOMAIN headers : headers[i].panic THEN HttpPanic
        ELSE HttpOk(get_or_empty(statuses, 0),
                    unwrap_or(IF 1 < Len(statuses) THEN parse_u32(statuses[2]) ELSE None,
                              T_404),
                    get_or_empty(statuses, 2),
                    [i \in DOMAIN headers |-> headers[i].header],
                    body)

\* HttpResponse::header_value: [ok, value]
header_value(response, name) ==
    LET found == {i \in DOMAIN response.headers : response.headers[i].name = name}
    IN  IF found = {} THEN [ok |-> FALSE, value |-> <<>>]
        ELSE [ok |-> TRUE,
              value |-> response.headers[CHOOSE i \in found : \A j \in found : i <= j].value]

----------------------------------------------------------------------------
(* URL texts                                                               *)

UrlSchemes == { <<"h", "t", "t", "p", ":", "/", "/">>, <<"h", "t", "t", "p", "s", ":", "/", "/">>, <<>>, <<"h", "t", "t", "p", ":", "/", "/", "h", "t", "t", "p", ":", "/", "/">> }
UrlHosts == { <<"a">>, <<"e", "x">>, <<>> }
UrlPorts == { <<>>, <<":", "8">>, <<":">>, <<":", "1", ":", "2">> }
UrlPaths ==
    { <<>>,
      <<"/">>,
      <<"/", "i">>,
      <<"/", "i", "/", "j">>,
      <<"/", "i", "?", "q">>,
      <<"/", "i", "?", "q", "?", "r">>,
      <<"?", "q">>,
      <<"/", "i", ":", "j">>,
      <<"/", "?">> }

\* the URLs of the tests of url.rs
TestUrls ==
    { <<"h", "t", "t", "p", ":", "/", "/", "e", "x", "a", "m", "p", "l", "e", ".", "c", "o", "m">>,
      <<"h", "t", "t", "p", ":", "/", "/", "e", "x", "a", "m", "p", "l", "e", ".", "c", "o", "m", ":", "8", "8", "8", "8">>,
      <<"h", "t", "t", "p", ":", "/", "/", "e", "x", "a", "m", "p", "l", "e", ".", "c", "o", "m", "/", "i", "n", "d", "e", "x", ".", "h", "t", "m", "l">>,
      <<"h", "t", "t", "p", ":", "/", "/", "e", "x", "a", "m", "p", "l", "e", ".", "c", "o", "m", ":", "8", "8", "8", "8", "/", "i", "n", "d", "e", "x", ".", "h", "t", "m", "l">>,
      <<"h", "t", "t", "p", ":", "/", "/", "e", "x", "a", "m", "p", "l", "e", ".", "c", "o", "m", ":", "8", "8", "8", "8", "/", "i", "n", "d", "e", "x", ".", "h", "t", "m", "l", "?", "a", "=", "1", "2", "3", "&", "b", "=", "4", "5", "6">>,
      <<"h", "t", "t", "p", ":", "/", "/", "l", "o", "c", "a", "l", "h", "o", "s", "t", ":", "8", "0", "0", "0">>,
      <<"e", "x", "a", "m", "p", "l", "e", ".", "c", "o", "m">>,
      <<"h", "t", "t", "p", "s", ":", "/", "/", "e", "x", "a", "m", "p", "l", "e", ".", "c", "o", "m", ":", "8", "8", "8", "8", "/", "i", "n", "d", "e", "x", ".", "h", "t", "m", "l">> }

Urls ==
    {Concat(<<s, h, p, q>>) :
        s \in UrlSchemes, h \in UrlHosts, p \in UrlPorts, q \in UrlPaths}
    \cup TestUrls

----------------------------------------------------------------------------
(* Input texts                                                             *)

Open(name) == <<"<">> \o name \o <<">">>
Close(name) == <<"<", "/">> \o name \o <<">">>

T_text == <<"t","e","x","t">>
T_img == <<"i","m","g">>

\* the fragments that input texts are concatenated from: complete tags,
\* text, and tags cut off by the end of the input
Pieces ==
    { Open(T_html), Open(T_head), Close(T_head), Open(T_body), Close(T_body),
      Close(T_html), Open(<<"p">>), Open(T_style), Close(T_style),
      Open(T_script), Close(T_script), Open(T_img), Open(<<"P">>),
      <<"x">>, <<" ">>,
      <<"<">>, <<"<", "/">>, <<"<", "a">>, <<"<", "a", " ", "f">>,
      <<"<", "a", " ", "f", "=", "v">>, <<"<", "a", "/">> }

RECURSIVE Texts(_)
Texts(n) ==
    IF n = 0 THEN {<<>>}
    ELSE LET shorter == Texts(n - 1)
         IN  shorter \cup {t \o q : t \in shorter, q \in Pieces}

\* tag names of ASCII letters, in lower, upper and mixed case
TagNames == {T_body, <<"p">>, <<"P">>, <<"A", "b">>, T_img}

\* text content without whitespace
BodyTexts == {T_text, <<"x">>, <<"a", "b">>}

TagPair(name) == Open(name) \o Close(name)

\* parser.rs tests::test_body
DocBody == Concat(<<Open(T_html), Open(T_head), Close(T_head), Open(T_body),
                    Close(T_body), Close(T_html)>>)

\* parser.rs tests::test_text, with the text `txt`
DocText(txt) == Concat(<<Open(T_html), Open(T_head), Close(T_head), Open(T_body),
                         txt, Close(T_body), Close(T_html)>>)

\* parser.rs tests::test_multiple_nodes
DocMultipleNodes ==
    Concat(<<Open(T_html), Open(T_head), Close(T_head), Open(T_body),
             Open(<<"p">>), <<"<","a"," ","f","o","o","=","b","a","r",">">>,
             T_text, Close(<<"a">>), Close(<<"p">>),
             Close(T_body), Close(T_html)>>)

\* a document with a style element in its head
DocStyle ==
    Concat(<<Open(T_html), Open(T_head), Open(T_style), <<"x", "y">>,
             Close(T_style), Close(T_head), Open(T_body), Close(T_body),
             Close(T_html)>>)

\* a written attribute [name, quote, value]: name=value with the value between
\* two `quote` marks, or bare when quote is ""
Quoted(q, v) == IF q = "" THEN v ELSE <<q>> \o v \o <<q>>
Written(w) == w.name \o <<"=">> \o Quoted(w.quote, w.value)

AttrNames == {<<"i","d">>, <<"I","d">>, <<"f","o","o">>}
QuoteMarks == {"\"", "'"}

AttrWritings ==
    {[name |-> n, quote |-> q, value |-> <<"B">>] :
        n \in AttrNames, q \in QuoteMarks \cup {""}}
    \cup {[name |-> n, quote |-> q, value |-> <<"a", " ", "b">>] :
        n \in AttrNames, q \in QuoteMarks}

\* the attributes of token.rs tests::test_attributes
TestAttributes ==
    << [name |-> <<"c","l","a","s","s">>, quote |-> "\"", value |-> <<"A">>],
       [name |-> <<"i","d">>, quote |-> "'", value |-> <<"B">>],
       [name |-> <<"f","o","o">>, quote |-> "", value |-> <<"b","a","r">>] >>

AttrLists ==
    {<<w>> : w \in AttrWritings}
        \cup {<<v, w>> : v \in AttrWritings, w \in AttrWritings}
        \cup {TestAttributes}

Spaces(n) == [i \in 1..n |-> " "]

\* the written attributes, each after a run of n spaces
RECURSIVE SpacedAttrs(_, _)
SpacedAttrs(ws, n) ==
    IF ws = <<>> THEN <<>>
    ELSE Spaces(n) \o Written(Head(ws)) \o SpacedAttrs(Tail(ws), n)

\* <p a=.. b=..></p> with runs of n spaces before the attributes
AttrTagSpaced(ws, n) ==
    <<"<", "p">> \o SpacedAttrs(ws, n) \o <<">">> \o Close(<<"p">>)

\* token.rs tests::test_attributes, with the attributes ws
AttrTag(ws) == AttrTagSpaced(ws, 1)

\* lengths of the longer runs of spaces
SpaceRuns == {2, 3}

\* tag names without uppercase letters
LowerTagNames == {T_img, <<"a">>, <<"p">>}

\* ends of a start tag in `/>` (token.rs tests::test_self_closing_tag)
SlashEnds == {<<" ", "/", ">">>, <<"/", ">">>}

\* ends of a start tag in `>` with no `/` before it
PlainEnds ==
    { <<">">>, <<" ", "f", "=", "v", ">">>, <<" ", "f", "=", "/", "v", ">">>,
      <<" ", "/", "b", ">">>, <<"/", " ", ">">> }

TagWithEnd(name, e) == <<"<">> \o name \o e

\* an end tag written with the characters e between its name and its end
EndTagWithEnd(name, e) == <<"<", "/">> \o name \o e

\* <style>x<style>: a start tag after the text of a style element
StyleInStyle == Open(T_style) \o <<"x">> \o Open(T_style)

\* texts with a `<` that begins no tag: the character after it is neither a
\* letter nor `/`
LessThanTexts ==
    { <<"<", " ">>, <<"<", "1", ">">>, <<"a", "<", "1", "b">>, <<"1", "<", "<", "2">> }

\* </ p>: a space between `</` and the name of the end tag
SpacedEndTag == <<"<", "/", " ", "p", ">">>

\* text content without `<`
TagTexts ==
    { <<"j","s"," ","c","o","d","e",";">>, <<"a", " ", "b">>,
      <<"a", "/", ">", "b">>, <<"X">> }

\* the text of a style or script element
StyleTexts == { <<"a", "b", "c">>, <<"x">>, <<"a", " ", "b">> }

\* script content with a `<` that does not begin </script>
ScriptTexts ==
    { <<"a", "<", "b", ";">>, <<"a", "<", "b", ">", "c">>,
      <<"a", "<", "/", "b", ">", "c">> }

\* start tags with an attribute written directly after a closing quote
AbuttingAttrTags ==
    { <<"<", "a", " ", "f", "=", "\"", "v", "\"", "g", ">">>,
      <<"<", "a", " ", "f", "=", "'", "v", "'", "g", "=", "w", ">">> }

\* <DiV Id=Ab X='Yz'></DiV>: uppercase letters in the tag name, in attribute
\* names and in attribute values
CaseTag ==
    <<"<", "D", "i", "V", " ", "I", "d", "=", "A", "b", " ", "X", "=", "'",
      "Y", "z", "'", ">", "<", "/", "D", "i", "V", ">">>

\* token.rs tests::test_script_tag, with the tag name and the text
TextTag(name, txt) == Open(name) \o txt \o Close(name)

Documents ==
    {DocBody, DocMultipleNodes, DocStyle}
        \cup {DocText(txt) : txt \in BodyTexts}
        \cup {TagPair(name) : name \in TagNames}
        \cup {AttrTag(ws) : ws \in AttrLists}
        \cup {AttrTagSpaced(ws, n) : ws \in AttrLists, n \in SpaceRuns}
        \cup {TagWithEnd(name, e) :
                name \in LowerTagNames, e \in SlashEnds \cup PlainEnds}
        \cup {TextTag(name, txt) : name \in {T_script, <<"p">>}, txt \in TagTexts}
        \cup {TextTag(T_script, txt) : txt \in ScriptTexts}
        \cup {TextTag(name, txt) : name \in {T_style, T_script}, txt \in StyleTexts}
        \cup AbuttingAttrTags
        \cup {CaseTag, StyleInStyle, SpacedEndTag} \cup LessThanTexts
        \cup {EndTagWithEnd(<<"p">>, e) : e \in SlashEnds \cup PlainEnds}

Inputs == Texts(MaxPieces) \cup Documents

----------------------------------------------------------------------------
(* Style sheet texts                                                       *)

\* the fragments that style sheet texts are concatenated from
CssPieces ==
    { <<"p">>, <<"{">>, <<"}">>, <<":">>, <<";">>,
      <<" ">>, <<".">>, <<"#", "i">>, <<"@", "m">>, <<",">>,
      <<"4">>, <<"\"", "s", "\"">>, <<"*">>, <<"a", ":", "b">>, <<"(">> }

RECURSIVE CssTexts(_)
CssTexts(n) ==
    IF n = 0 THEN {<<>>}
    ELSE LET shorter == CssTexts(n - 1)
         IN  shorter \cup {t \o q : t \in shorter, q \in CssPieces}

\* a written selector with the tokens and the Selector it stands for
CssSelectors ==
    { [text |-> <<"p">>, tokens |-> <<Ident(<<"p">>)>>, selector |-> TypeSelector(<<"p">>)],
      [text |-> <<"h", "1">>, tokens |-> <<Ident(<<"h", "1">>)>>, selector |-> TypeSelector(<<"h", "1">>)],
      [text |-> <<"#", "i", "d">>, tokens |-> <<HashToken(<<"#", "i", "d">>)>>,
       selector |-> IdSelector(<<"i", "d">>)],
      [text |-> <<".", "c", "l", "a", "s", "s">>, tokens |-> <<Delim("."), Ident(<<"c", "l", "a", "s", "s">>)>>,
       selector |-> ClassSelector(<<"c", "l", "a", "s", "s">>)] }

CssProperties == {<<"c", "o", "l", "o", "r">>, <<"f", "o", "n", "t", "-", "s", "i", "z", "e">>}

\* a written value with the token it stands for
CssValues ==
    { [text |-> <<"r", "e", "d">>, token |-> Ident(<<"r", "e", "d">>)],
      [text |-> <<"\"", "H", "e", "y", "\"">>, token |-> StringToken(<<"H", "e", "y">>)],
      [text |-> <<"4", "0">>, token |-> Number(40, <<>>)] }

\* the white space written between two tokens
CssGaps == {<<>>, <<" ">>, <<"\n", "\t">>}

\* selector { property : value ; } with the gap h before `:` and `;` and the
\* gap g between its other tokens (css/token.rs tests::test_one_rule,
\* test_id_selector, test_class_selector have g = " " and no h)
RuleText(sel, property, val, g, h) ==
    Concat(<<sel.text, g, <<"{">>, g, property, h, <<":">>, g, val.text, h,
             <<";">>, g, <<"}">>>>)

RuleTexts ==
    {RuleText(sel, property, val, g, h) :
        sel \in CssSelectors, property \in CssProperties, val \in CssValues,
        g \in CssGaps, h \in CssGaps}

\* a written declaration, with the Declaration it stands for when it is well
\* formed
CssDeclarations ==
    { [text |-> <<"c", "o", "l", "o", "r", ":", "r", "e", "d">>, good |-> TRUE,
       declaration |-> Declaration(<<"c", "o", "l", "o", "r">>, Ident(<<"r", "e", "d">>))],
      [text |-> <<"m", "a", "r", "g", "i", "n", ":", " ", "0">>, good |-> TRUE,
       declaration |-> Declaration(<<"m", "a", "r", "g", "i", "n">>, Number(0, <<>>))],
      [text |-> <<"t", "o", "p">>, good |-> FALSE, declaration |-> NewDeclaration],
      [text |-> <<"l", "e", "f", "t", " ", "r", "e", "d">>, good |-> FALSE, declaration |-> NewDeclaration],
      [text |-> <<"a", " ", "b", " ", "c", ":", "d">>, good |-> FALSE, declaration |-> NewDeclaration] }

DeclarationLists ==
    {<<>>} \cup {<<a>> : a \in CssDeclarations}
        \cup {<<a, b>> : a \in CssDeclarations, b \in CssDeclarations}
        \cup {<<a, b, c>> : a \in CssDeclarations, b \in CssDeclarations,
                            c \in CssDeclarations}

\* the written declarations with `;` between them
RECURSIVE JoinDeclarations(_)
JoinDeclarations(ds) ==
    IF ds = <<>> THEN <<>>
    ELSE IF Len(ds) = 1 THEN ds[1].text
    ELSE ds[1].text \o <<";">> \o JoinDeclarations(Tail(ds))

\* p { d1; d2; .. } with or without a `;` after the last declaration
DeclarationsText(ds, last) ==
    <<"p", "{">> \o JoinDeclarations(ds) \o last \o <<"}">>

\* the rule p { color: red; } (css/token.rs tests::test_one_rule) and a second
\* rule
T_rule1 == <<"p", " ", "{", " ", "c", "o", "l", "o", "r", ":", " ", "r", "e", "d", ";", " ", "}">>
T_rule2 == <<"h", "1", "{", "m", "a", "r", "g", "i", "n", ":", "0", ";", "}">>

\* the qualified rules written after a rule, with the rules they stand for
Rule1 ==
    QualifiedRule(TypeSelector(<<"p">>),
                  <<Declaration(<<"c", "o", "l", "o", "r">>, Ident(<<"r", "e", "d">>))>>)
Rule2 ==
    QualifiedRule(TypeSelector(<<"h", "1">>),
                  <<Declaration(<<"m", "a", "r", "g", "i", "n">>, Number(0, <<>>))>>)

FollowingRules ==
    { [text |-> <<>>, rules |-> <<>>],
      [text |-> T_rule1, rules |-> <<Rule1>>],
      [text |-> T_rule1 \o T_rule2, rules |-> <<Rule1, Rule2>>] }

\* a rule with a declaration list, and the rules written after it
DeclarationsTexts ==
    {DeclarationsText(ds, last) \o r.text :
        ds \in DeclarationLists, last \in {<<>>, <<";">>}, r \in FollowingRules}

\* p{a:} : a declaration whose colon is followed by the `}` of the rule, and
\* the rules written after it
CurlyValueTexts == {<<"p", "{", "a", ":", "}">> \o r.text : r \in FollowingRules}

\* a rule that ends inside a declaration: after the identifier, after the
\* colon, after the value
TruncatedRules ==
    { <<"p", "{", "t", "o", "p">>, <<"p", "{", "t", "o", "p", ":">>,
      <<"p", "{", "t", "o", "p", ":", " ">>, <<"p", "{", "t", "o", "p", ":", "0">>,
      <<"p", "{", "a", ":", "b", ";", "t", "o", "p", ":">> }

\* texts of one token that is no HashToken, Delim, Ident or AtKeyword
OtherSelectorTexts == { <<"4">>, <<":">>, <<"(">>, <<"\"", "s", "\"">>, <<";">> }

\* a rule whose selector is such a token
OtherSelectorRules == {s \o <<"{", "a", ":", "b", "}">> : s \in OtherSelectorTexts}

\* at-rules
AtRules ==
    { <<"@", "m", "e", "d", "i", "a", " ", "x", " ", "{", " ", "a", ":", " ", "b", ";", " ", "}">>,
      <<"@", "i", "m", "p", "o", "r", "t", " ", "\"", "a", "\"", ";">>,
      <<"@", "m", "e", "d", "i", "a", " ", "x", " ", "{", " ", "p", " ", "{", " ", "a", ":", " ", "b", ";", " ", "}", " ", "}">> }

\* a selector that makes consume_selector read on to the next `{`
SkippingSelectors ==
    { <<"a", ":", "h", "o", "v", "e", "r">>, <<"@", "m", "e", "d", "i", "a", " ", "x">>, <<"a", ":", "b", ":", "c", " ">> }

CssInputs ==
    CssTexts(MaxCssPieces) \cup RuleTexts \cup DeclarationsTexts
        \cup {s \o r : s \in SkippingSelectors, r \in {<<>>, <<"{", "}">>}}
        \cup {a \o r.text : a \in AtRules, r \in FollowingRules}
        \cup {s \o T_rule1 : s \in SkippingSelectors}
        \cup CurlyValueTexts \cup TruncatedRules \cup OtherSelectorRules

----------------------------------------------------------------------------
(* Raw HTTP responses                                                      *)

\* the raw responses of http.rs tests::test_invalid .. test_crlf
TestResponses ==
    { <<"H", "T", "T", "P", "/", "1", ".", "1", " ", "2", "0", "0", " ", "O", "K">>,
      <<"H", "T", "T", "P", "/", "1", ".", "1", " ", "2", "0", "0", " ", "O", "K", "\n", "\n">>,
      <<"H", "T", "T", "P", "/", "1", ".", "1", " ", "2", "0", "0", " ", "O", "K", "\n", "D", "a", "t", "e", ":", "x", "x", " ", "x", "x", " ", "x", "x", "\n", "\n">>,
      <<"H", "T", "T", "P", "/", "1", ".", "1", " ", "2", "0", "0", " ", "O", "K", "\n", "D", "a", "t", "e", ":", " ", "x", "x", " ", "x", "x", " ", "x", "x", "\n", "C", "o", "n", "t", "e", "n", "t", "-", "L", "e", "n", "g", "t", "h", ":", " ", "4", "2", "\n", "\n">>,
      <<"H", "T", "T", "P", "/", "1", ".", "1", " ", "2", "0", "0", " ", "O", "K", "\n", "D", "a", "t", "e", ":", " ", "x", "x", " ", "x", "x", " ", "x", "x", "\n", "\n", "b", "o", "d", "y", " ", "m", "e", "s", "s", "a", "g", "e">>,
      <<"H", "T", "T", "P", "/", "1", ".", "1", " ", "2", "0", "0", " ", "O", "K", "\r", "\n", "D", "a", "t", "e", ":", " ", "x", "x", " ", "x", "x", " ", "x", "x", "\r", "\n", "\r", "\n", "b", "o", "d", "y", " ", "m", "e", "s", "s", "a", "g", "e">> }

\* white space before the status line
HttpLeads == { <<>>, <<" ">>, <<"\n">> }

\* status lines: a status code, no second field, a second field that is not
\* a number, an empty second field, a sign, a value above u32::MAX, u32::MAX,
\* leading zeros and a fourth field
StatusLines ==
    { <<"H", " ", "2", "0", "0", " ", "O", "K">>,
      <<"H">>,
      <<"H", " ", "2", "x", " ", "O", "K">>,
      <<"H", " ", " ", "2", "0", "0">>,
      <<"H", " ", "+", "7", " ", "O", "K">>,
      <<"H", " ", "4", "2", "9", "4", "9", "6", "7", "2", "9", "6", " ", "O", "K">>,
      <<"H", " ", "4", "2", "9", "4", "9", "6", "7", "2", "9", "5", " ", "O", "K">>,
      <<"H", " ", "0", "4", "0", "4", " ", "a", " ", "b">> }

LineTerminators == { <<"\n">>, <<"\r", "\n">> }

\* header lines: a name and a value, white space around them and a second
\* colon, no colon, nothing but a colon, an empty line
HeaderLines ==
    { <<"D", "a", "t", "e", ":", "x", "x", " ", "x", "x">>,
      <<" ", "A", " ", ":", " ", "b", ":", "c", " ">>,
      <<"D", "a", "t", "e">>,
      <<":">>,
      <<>> }

\* the header lines of a response: none, one or two of them
HeaderBlocks ==
    {<<>>} \cup {<<a>> : a \in HeaderLines}
        \cup {<<a, b>> : a \in HeaderLines, b \in HeaderLines}

HttpBodies == { <<>>, <<"b">>, <<"b", "\n", "\n", "c">> }

\* the lines, each with the line terminator nl after it
RECURSIVE Terminated(_, _)
Terminated(lines, nl) ==
    IF lines = <<>> THEN <<>>
    ELSE Head(lines) \o nl \o Terminated(Tail(lines), nl)

\* status line, header lines, empty line and body
ResponseText(lead, status, nl, headers, body) ==
    lead \o Terminated(<<status>> \o headers, nl) \o nl \o body

HttpRaws ==
    TestResponses
        \cup {lead \o status : lead \in HttpLeads, status \in StatusLines}
        \cup {lead \o status \o nl \o body :
                lead \in HttpLeads, status \in StatusLines,
                nl \in LineTerminators, body \in HttpBodies}
        \cup {ResponseText(lead, status, nl, headers, body) :
                lead \in HttpLeads, status \in StatusLines,
                nl \in LineTerminators, headers \in HeaderBlocks,
                body \in HttpBodies}

----------------------------------------------------------------------------
(* Tag names given to ElementKind::from_str                                *)

\* the names that from_str accepts
SupportedNames == {T_html, T_head, T_style, T_script, T_body, <<"p">>, <<"a">>}

NameLetters == {"a", "p", "b", "h", "s", "t", "A", "P"}

\* the supported names, names of other elements, names in upper case and the
\* names of up to two letters
FromStrNames ==
    SupportedNames
        \cup {T_img, T_text, <<"S", "c", "r", "i", "p", "t">>, <<"H", "T", "M", "L">>,
              <<"h", "e", "a", "d", "e", "r">>, <<>>}
        \cup {<<c>> : c \in NameLetters}
        \cup {<<c, d>> : c \in NameLetters, d \in NameLetters}

----------------------------------------------------------------------------
(* Specifications                                                          *)

\* the style sheet code and the URL code before they are given an input
CssIdle ==
    /\ css_input = <<>>
    /\ css_tokenizer = NewCssTokenizer
    /\ css_pulled = <<>>
    /\ css_parser = NewCssParser

UrlIdle ==
    /\ url = <<>>
    /\ url_result = NotParsed

HttpIdle ==
    /\ http_raw = <<>>
    /\ http_result = NoResponse

KindIdle ==
    /\ from_str_s = <<>>
    /\ from_str_result = "None"

\* HtmlTokenizer::new and HtmlParser::new on the text inp
HtmlNew(inp) ==
    /\ input = inp
    /\ tokenizer = NewTokenizer
    /\ pulled = <<>>
    /\ nodes = NewWindow
    /\ current_mode = "Initial"
    /\ original_mode = "Initial"
    /\ stack_of_open_elements = <<>>
    /\ token = NoToken
    /\ pc = "start"

\* the document code before it is given an input
HtmlIdle == HtmlNew(<<>>)

\* HtmlTokenizer::new and HtmlParser::new on an input text
Init ==
    /\ \E inp \in Inputs : HtmlNew(inp)
    /\ CssIdle
    /\ UrlIdle
    /\ HttpIdle
    /\ KindIdle

ParserState ==
    [nodes |-> nodes, stack |-> stack_of_open_elements, mode |-> current_mode,
     orig |-> original_mode, tok |-> token, tk |-> tokenizer,
     pulled |-> pulled, pc |-> pc]

SetParserState(st) ==
    /\ nodes' = st.nodes
    /\ stack_of_open_elements' = st.stack
    /\ current_mode' = st.mode
    /\ original_mode' = st.orig
    /\ token' = st.tok
    /\ tokenizer' = st.tk
    /\ pulled' = st.pulled
    /\ pc' = st.pc
    /\ UNCHANGED <<input, css_vars, url_vars, http_vars, kind_vars>>

\* construct_tree, line 39: `let mut token = self.tokenizer.next();`
Start ==
    /\ pc = "start"
    /\ SetParserState(Advance([ParserState EXCEPT !.pc = "loop"], input))

\* `while token.is_some()`
LoopContinues(t) == t.kind # "None"

\* construct_tree: one iteration of the loop
Iterate ==
    /\ pc = "loop"
    /\ LoopContinues(token)
    /\ Len(nodes) < MaxNodes
    /\ SetParserState(ConstructTreeStep(ParserState, input))

\* construct_tree, line 279: the loop is left and the window returned
Return ==
    /\ pc = "loop"
    /\ ~LoopContinues(token)
    /\ pc' = "done"
    /\ UNCHANGED <<input, tokenizer, pulled, nodes, current_mode, original_mode,
                   stack_of_open_elements, token, css_vars, url_vars, http_vars, kind_vars>>

Next == Start \/ Iterate \/ Return

Spec == Init /\ [][Next]_vars

\* a caller that pulls tokens from the tokenizer, as the tests of token.rs do
Pull ==
    /\ pc = "start"
    /\ Len(pulled) < MaxPulls
    /\ LET r == TokenizerNext(tokenizer, input)
       IN  IF r.panic
           THEN /\ pc' = "panic"
                /\ UNCHANGED <<tokenizer, pulled>>
           ELSE /\ tokenizer' = r.tk
                /\ pulled' = Append(pulled, r.ret)
                /\ pc' = pc
    /\ UNCHANGED <<input, nodes, current_mode, original_mode,
                   stack_of_open_elements, token, css_vars, url_vars, http_vars, kind_vars>>

NextTokenizer == Pull

SpecTokenizer == Init /\ [][NextTokenizer]_vars

----------------------------------------------------------------------------
(* Specifications of the style sheet code                                  *)

\* CssTokenizer::new and CssParser::new on the text inp
CssNew(inp) ==
    /\ css_input = inp
    /\ css_tokenizer = NewCssTokenizer
    /\ css_pulled = <<>>
    /\ css_parser = NewCssParser

\* CssTokenizer::new and CssParser::new on a style sheet text
InitCss ==
    /\ HtmlIdle
    /\ \E inp \in CssInputs : CssNew(inp)
    /\ UrlIdle
    /\ HttpIdle
    /\ KindIdle

\* parse_stylesheet is called: `let mut rules = Vec::new();`
ParseStylesheet ==
    /\ css_parser.pc = "start"
    /\ css_parser' = [css_parser EXCEPT !.pc = "rules", !.rules = <<>>]
    /\ UNCHANGED <<html_vars, css_input, css_tokenizer, css_pulled, url_vars, http_vars, kind_vars>>

\* consume_list_of_rules: from the head of the loop to consume_qualified_rule
ConsumeListOfRules ==
    /\ css_parser.pc = "rules"
    /\ css_parser' = ListOfRulesStep(css_parser, css_input)
    /\ UNCHANGED <<html_vars, css_input, css_tokenizer, css_pulled, url_vars, http_vars, kind_vars>>

\* consume_qualified_rule: one iteration of the loop
ConsumeQualifiedRule ==
    /\ css_parser.pc = "rule"
    /\ css_parser' = QualifiedRuleStep(css_parser, css_input)
    /\ UNCHANGED <<html_vars, css_input, css_tokenizer, css_pulled, url_vars, http_vars, kind_vars>>

\* consume_selector after Delim('.'): consume_ident
SelectorClass ==
    /\ css_parser.pc = "selector_class"
    /\ css_parser' = SelectorClassStep(css_parser, css_input)
    /\ UNCHANGED <<html_vars, css_input, css_tokenizer, css_pulled, url_vars, http_vars, kind_vars>>

\* consume_selector after an Ident: the peek for the colon
SelectorType ==
    /\ css_parser.pc = "selector_type"
    /\ css_parser' = SelectorTypeStep(css_parser, css_input)
    /\ UNCHANGED <<html_vars, css_input, css_tokenizer, css_pulled, url_vars, http_vars, kind_vars>>

\* consume_selector after any other token: one more token is dropped
SelectorUnknown ==
    /\ css_parser.pc = "selector_unknown"
    /\ css_parser' = SelectorUnknownStep(css_parser, css_input)
    /\ UNCHANGED <<html_vars, css_input, css_tokenizer, css_pulled, url_vars, http_vars, kind_vars>>

\* consume_selector: `while self.tokenizer.peek() != Some(&CssToken::OpenCurly)`
SkipPeek ==
    /\ css_parser.pc = "skip"
    /\ css_parser' = SkipPeekStep(css_parser, css_input)
    /\ UNCHANGED <<html_vars, css_input, css_tokenizer, css_pulled, url_vars, http_vars, kind_vars>>

\* consume_selector: `self.tokenizer.next();` in the body of the `while` loop
SkipNext ==
    /\ css_parser.pc = "skip_next"
    /\ css_parser' = SkipNextStep(css_parser, css_input)
    /\ UNCHANGED <<html_vars, css_input, css_tokenizer, css_pulled, url_vars, http_vars, kind_vars>>

\* consume_list_of_declarations: one iteration of the loop
ConsumeListOfDeclarations ==
    /\ css_parser.pc = "declarations"
    /\ css_parser' = ListOfDeclarationsStep(css_parser, css_input)
    /\ UNCHANGED <<html_vars, css_input, css_tokenizer, css_pulled, url_vars, http_vars, kind_vars>>

\* consume_declaration: the token after the property
DeclarationColon ==
    /\ css_parser.pc = "declaration_colon"
    /\ css_parser' = DeclarationColonStep(css_parser, css_input)
    /\ UNCHANGED <<html_vars, css_input, css_tokenizer, css_pulled, url_vars, http_vars, kind_vars>>

\* consume_declaration: the value, and the push of the declaration
DeclarationValue ==
    /\ css_parser.pc = "declaration_value"
    /\ css_parser' = DeclarationValueStep(css_parser, css_input)
    /\ UNCHANGED <<html_vars, css_input, css_tokenizer, css_pulled, url_vars, http_vars, kind_vars>>

NextCss ==
    \/ ParseStylesheet
    \/ ConsumeListOfRules
    \/ ConsumeQualifiedRule
    \/ SelectorClass
    \/ SelectorType
    \/ SelectorUnknown
    \/ SkipPeek
    \/ SkipNext
    \/ ConsumeListOfDeclarations
    \/ DeclarationColon
    \/ DeclarationValue

SpecCss == InitCss /\ [][NextCss]_vars

\* the parser is the only thread and runs on until it returns or panics
SpecCssFair == InitCss /\ [][NextCss]_vars /\ WF_vars(NextCss)

\* a caller that pulls tokens from the tokenizer, as the tests of css/token.rs
\* do
CssPull ==
    /\ css_parser.pc = "start"
    /\ Len(css_pulled) < MaxCssPulls
    /\ LET r == CssTokenizerNext(css_tokenizer.pos, css_input)
       IN  IF r.panic
           THEN /\ css_parser' = CssFail(css_parser)
                /\ UNCHANGED <<css_tokenizer, css_pulled>>
           ELSE /\ css_tokenizer' = [css_tokenizer EXCEPT !.pos = r.pos]
                /\ css_pulled' = Append(css_pulled, r.ret)
                /\ UNCHANGED css_parser
    /\ UNCHANGED <<html_vars, css_input, url_vars, http_vars, kind_vars>>

NextCssTokenizer == CssPull

SpecCssTokenizer == InitCss /\ [][NextCssTokenizer]_vars

----------------------------------------------------------------------------
(* Specification of Url::parse                                             *)

\* Url::new on a URL text
InitUrl ==
    /\ HtmlIdle
    /\ CssIdle
    /\ url \in Urls
    /\ url_result = NotParsed
    /\ HttpIdle
    /\ KindIdle

\* a call of Url::parse
Parse ==
    /\ url_result = NotParsed
    /\ url_result' = UrlParse(url)
    /\ UNCHANGED <<html_vars, css_vars, url, http_vars, kind_vars>>

NextUrl == Parse

SpecUrl == InitUrl /\ [][NextUrl]_vars

----------------------------------------------------------------------------
(* Specification of HttpResponse::new                                      *)

\* a raw response is received
InitHttp ==
    /\ HtmlIdle
    /\ CssIdle
    /\ UrlIdle
    /\ http_raw \in HttpRaws
    /\ http_result = NoResponse
    /\ KindIdle

\* a call of HttpResponse::new
NewResponse ==
    /\ http_result = NoResponse
    /\ http_result' = HttpResponseNew(http_raw)
    /\ UNCHANGED <<html_vars, css_vars, url_vars, http_raw, kind_vars>>

NextHttp == NewResponse

SpecHttp == InitHttp /\ [][NextHttp]_vars

----------------------------------------------------------------------------
(* Specification of ElementKind::from_str                                  *)

\* a tag name is to be classified
InitFromStr ==
    /\ HtmlIdle
    /\ CssIdle
    /\ UrlIdle
    /\ HttpIdle
    /\ from_str_s \in FromStrNames
    /\ from_str_result = "None"

\* a call of ElementKind::from_str
FromStr ==
    /\ from_str_result = "None"
    /\ from_str_result' = ElementKindFromStr(from_str_s)
    /\ UNCHANGED <<html_vars, css_vars, url_vars, http_vars, from_str_s>>

NextFromStr == FromStr

SpecFromStr == InitFromStr /\ [][NextFromStr]_vars

----------------------------------------------------------------------------
(* Reading the tree                                                        *)

\* the sibling chain that starts at cell n, at most `fuel` cells of it
RECURSIVE Chain(_, _, _)
Chain(ns, n, fuel) ==
    IF n = 0 \/ fuel = 0 THEN <<>>
    ELSE <<n>> \o Chain(ns, ns[n].next_sibling, fuel - 1)

ChildrenOf(ns, p) == Chain(ns, ns[p].first_child, Len(ns) + 1)

\* the cell reached from n by `steps` parent references (0 past the root)
RECURSIVE Ancestor(_, _, _)
Ancestor(ns, n, steps) ==
    IF n = 0 \/ steps = 0 THEN n ELSE Ancestor(ns, ns[n].parent, steps - 1)

IsElement(ns, n, kind) ==
    n # 0 /\ ns[n].kind = "Element" /\ ns[n].element_kind = kind

IsText(ns, n) == n # 0 /\ ns[n].kind = "Text"

EndsWith(s, suffix) ==
    /\ Len(s) >= Len(suffix)
    /\ SubSeq(s, Len(s) - Len(suffix) + 1, Len(s)) = suffix

----------------------------------------------------------------------------
(* Claims                                                                  *)

\* C1: construct_tree terminates on every finite input and does not insert
\* elements without bound.  A terminating parse builds at most one node per
\* input character besides the Document and the synthetic html, head and
\* body elements, so the number of cells never exceeds Len(input) + 4.
C1_BoundedInsertion == Len(nodes) <= Len(input) + 4

\* C2: pulling from HtmlTokenizer yields exactly one Eof token, after all
\* other tokens, and None on every pull after it.  Stated on the non-empty
\* input texts: a pull that yields None is preceded by the Eof or by another
\* None, Eof is yielded at most once and only None follows it.
C2_ExactlyOneEof ==
    input # <<>> =>
        \A i \in DOMAIN pulled :
            /\ pulled[i] = NoToken =>
                  i > 1 /\ pulled[i - 1] \in {Eof, NoToken}
            /\ pulled[i] = Eof =>
                  \A j \in DOMAIN pulled : j > i => pulled[j] = NoToken

\* the input ends in the middle of a tag: after `<` or `</`, inside a tag
\* name, inside an attribute name or value, or after `/`
CutTags ==
    { <<"<">>, <<"<", "/">>, <<"<", "a">>, <<"<", "a", " ", "f">>,
      <<"<", "a", " ", "f", "=", "v">>, <<"<", "a", "/">> }

EndsInsideTag(inp) == \E cut \in CutTags : EndsWith(inp, cut)

\* C3: end of input is never fatal: on an input that ends in the middle of
\* a tag no pull of the tokenizer aborts.
C3_EndOfInputNotFatal == EndsInsideTag(input) => pc # "panic"

\* C4: in every reachable state of construct_tree the node graph is acyclic,
\* every cell but the Document is in the child chain of exactly one cell, its
\* parent; previous_sibling and next_sibling are inverse where both exist;
\* and last_child is the tail of the chain that starts at first_child.
C4_TreeInvariant ==
    LET N == DOMAIN nodes
        kids(p) == ChildrenOf(nodes, p)
    IN  /\ \A n \in N : Ancestor(nodes, n, Len(nodes)) = 0
        /\ \A p \in N : /\ Len(kids(p)) <= Len(nodes)
                        /\ \A i, j \in DOMAIN kids(p) :
                              kids(p)[i] = kids(p)[j] => i = j
        /\ nodes[1].parent = 0
        /\ \A p \in N : 1 \notin Range(kids(p))
        /\ \A n \in N \ {1} :
              {p \in N : n \in Range(kids(p))} = {nodes[n].parent}
        /\ \A n \in N :
              LET nx == nodes[n].next_sibling
                  pv == nodes[n].previous_sibling
              IN  /\ (nx # 0 /\ nodes[nx].previous_sibling # 0)
                        => nodes[nx].previous_sibling = n
                  /\ (pv # 0 /\ nodes[pv].next_sibling # 0)
                        => nodes[pv].next_sibling = n
        /\ \A p \in N :
              nodes[p].first_child # 0 =>
                  nodes[p].last_child = kids(p)[Len(kids(p))]

\* C4 witness: a parse has returned a tree with a text node and with an
\* element that has several children
C4_Witness ==
    /\ pc = "done"
    /\ \E n \in DOMAIN nodes : IsText(nodes, n)
    /\ \E p \in DOMAIN nodes : Len(ChildrenOf(nodes, p)) >= 2

\* C5: parsing <html><head></head><body></body></html> yields
\* Document -> html -> head, body: body is the next sibling of head, head and
\* body have no children and body has no next sibling.
C5_TestBody ==
    (input = DocBody /\ pc = "done") =>
        LET html == nodes[1].first_child
            head == nodes[html].first_child
            body == nodes[head].next_sibling
        IN  /\ IsElement(nodes, html, "Html")
            /\ IsElement(nodes, head, "Head")
            /\ IsElement(nodes, body, "Body")
            /\ nodes[head].first_child = 0
            /\ nodes[body].first_child = 0
            /\ nodes[body].next_sibling = 0

\* C5 witness: the parse of that document has returned
C5_Witness == input = DocBody /\ pc = "done"

\* C6: parsing <html><head></head><body>T</body></html> with a text T
\* without whitespace yields a body element whose first child is a Text node
\* with the value T.
C6_TestText ==
    \A txt \in BodyTexts :
        (input = DocText(txt) /\ pc = "done") =>
            LET html == nodes[1].first_child
                head == nodes[html].first_child
                body == nodes[head].next_sibling
            IN  /\ IsElement(nodes, body, "Body")
                /\ IsText(nodes, nodes[body].first_child)
                /\ nodes[nodes[body].first_child].text = txt

\* C7: parsing <html><head></head><body><p><a foo=bar>text</a></p></body></html>
\* yields body -> p -> a -> Text("text"), the a element carrying the one
\* attribute foo=bar.  The tree of the claim has seven cells and cells are
\* never removed, so the parse never holds more than seven, and the returned
\* tree has that shape.
C7_TestMultipleNodes ==
    input = DocMultipleNodes =>
        /\ Len(nodes) <= 7
        /\ pc = "done" =>
              LET html == nodes[1].first_child
                  head == nodes[html].first_child
                  body == nodes[head].next_sibling
                  p == nodes[body].first_child
                  a == nodes[p].first_child
                  text == nodes[a].first_child
              IN  /\ IsElement(nodes, body, "Body")
                  /\ IsElement(nodes, p, "P")
                  /\ IsElement(nodes, a, "A")
                  /\ nodes[a].attributes =
                        <<[name |-> <<"f","o","o">>, value |-> <<"b","a","r">>]>>
                  /\ IsText(nodes, text)
                  /\ nodes[text].text = T_text

\* C8: parsing the empty input returns a Window whose Document has no
\* children: construct_tree runs to its return without creating a node.
C8_TestEmpty ==
    (input = <<>> /\ pc # "start") =>
        /\ pc \in {"loop", "done"}
        /\ Len(nodes) = 1
        /\ nodes[1].kind = "Document"
        /\ nodes[1].first_child = 0
        /\ nodes[1].last_child = 0

\* C8 witness: construct_tree has returned on the empty input
C8_Witness == input = <<>> /\ pc = "done"

\* C9: the stack of open elements is empty when construct_tree starts and
\* empty again when it returns for a document closed with </body></html>.
C9_StackEmptyAfterClose ==
    /\ pc = "start" => stack_of_open_elements = <<>>
    /\ (/\ pc = "done"
        /\ input \in Documents
        /\ EndsWith(input, Close(T_body) \o Close(T_html)))
          => stack_of_open_elements = <<>>

\* the tokens of <N></N> when the tag name is emitted as `tag`
TagPairTokens(tag) == <<StartTag(tag, FALSE, <<>>), EndTag(tag)>>

\* the pulls made so far are the tokens `toks` followed by None only
PulledIs(toks) ==
    \A i \in DOMAIN pulled :
        pulled[i] = IF i <= Len(toks) THEN toks[i] ELSE NoToken

\* the tag names of TagNames with their uppercase letters replaced
LowerCaseOf(name) ==
    CASE name = <<"P">> -> <<"p">>
      [] name = <<"A", "b">> -> <<"a", "b">>
      [] OTHER -> name

\* C10 as stated: tokenizing <N></N> yields exactly StartTag{N, false, []}
\* and EndTag{N}, and nothing but None after them.
C10_TagPairAsWritten ==
    \A name \in TagNames :
        input = TagPair(name) =>
            pc # "panic" /\ PulledIs(TagPairTokens(name))

\* C10 amended: tokenizing <N></N> yields exactly StartTag{n, false, []} and
\* EndTag{n}, n being N with its uppercase letters folded to lowercase, and
\* nothing but None after them.
C10_TagPairFolded ==
    \A name \in TagNames :
        input = TagPair(name) =>
            pc # "panic" /\ PulledIs(TagPairTokens(LowerCaseOf(name)))

\* C10 witness: both tokens of <P></P> and the None after them were pulled
C10_Witness == input = TagPair(<<"P">>) /\ Len(pulled) >= 3

----------------------------------------------------------------------------
(* Attributes, self-closing tags and text (token.rs)                       *)

\* the attribute names of AttrNames and TestAttributes with their uppercase
\* letters replaced
LowerAttrName(name) ==
    CASE name = <<"I", "d">> -> <<"i", "d">>
      [] OTHER -> name

AttributesAsWritten(ws) ==
    [i \in 1..Len(ws) |-> [name |-> ws[i].name, value |-> ws[i].value]]

AttributesFolded(ws) ==
    [i \in 1..Len(ws) |->
        [name |-> LowerAttrName(ws[i].name), value |-> ws[i].value]]

\* the tokens of <p a=.. b=..></p> when the attributes are emitted as attrs
AttrTagTokens(attrs) == <<StartTag(<<"p">>, FALSE, attrs), EndTag(<<"p">>)>>

\* C11 as stated: a start tag whose attributes are separated by single spaces,
\* with double-quoted, single-quoted or unquoted values, yields a StartTag
\* with one attribute per written attribute, in source order, each with its
\* written name and its written value without the quotes.
C11_AttributesAsWritten ==
    \A ws \in AttrLists :
        input = AttrTag(ws) =>
            pc # "panic" /\ PulledIs(AttrTagTokens(AttributesAsWritten(ws)))

\* C11 amended: ... each with its written name, uppercase ASCII letters
\* folded to lowercase, and its written value without the quotes.
C11_AttributesFolded ==
    \A ws \in AttrLists :
        input = AttrTag(ws) =>
            pc # "panic" /\ PulledIs(AttrTagTokens(AttributesFolded(ws)))

\* C11 witness: the tokens of test_attributes and the None after them were
\* pulled
C11_Witness == input = AttrTag(TestAttributes) /\ Len(pulled) >= 3

\* C12: a start tag that ends in `/>` yields a single StartTag with that tag
\* name, self_closing = true and no attributes; a start tag that ends in `>`
\* without `/` has self_closing = false.
C12_SelfClosing ==
    \A name \in LowerTagNames :
        /\ \A e \in SlashEnds :
              input = TagWithEnd(name, e) =>
                  /\ pc # "panic"
                  /\ PulledIs(<<StartTag(name, TRUE, <<>>)>>)
        /\ \A e \in PlainEnds :
              input = TagWithEnd(name, e) =>
                  /\ pc # "panic"
                  /\ Len(pulled) >= 1 =>
                        /\ pulled[1].kind = "StartTag"
                        /\ pulled[1].self_closing = FALSE

\* the Char tokens of a text
CharTokens(txt) == [i \in 1..Len(txt) |-> [kind |-> "Char", c |-> txt[i]]]

\* C13: the text between a start tag and its end tag, when it holds no `<`,
\* is emitted as one Char token per character, in order, between the StartTag
\* and the EndTag; <script>js code;</script> gives eight of them.
C13_TextTokens ==
    \A name \in {T_script, <<"p">>} : \A txt \in TagTexts :
        input = TextTag(name, txt) =>
            /\ pc # "panic"
            /\ PulledIs(<<StartTag(name, FALSE, <<>>)>> \o CharTokens(txt)
                            \o <<EndTag(name)>>)

\* C13 witness: the ten tokens of test_script_tag and the None after them
\* were pulled
C13_Witness ==
    /\ input = TextTag(T_script, <<"j","s"," ","c","o","d","e",";">>)
    /\ Len(pulled) >= 11

\* the first token of an input text
FirstToken(inp) == TokenizerNext(NewTokenizer, inp).ret

\* C14: replacing the single space before each attribute of a start tag by a
\* run of several spaces leaves the emitted StartTag unchanged.
C14_SpaceRuns ==
    \A ws \in AttrLists : \A n \in SpaceRuns :
        (input = AttrTagSpaced(ws, n) /\ Len(pulled) >= 1) =>
            pulled[1] = FirstToken(AttrTag(ws))

\* C15: construct_tree never stops on an unsupported tag name: Element::new
\* is reached with accepted names only.
C15_NoUnsupportedElement == pc # "panic_element"

\* C15 witness: a start tag with an unsupported name was pulled, elements were
\* inserted and the window was returned
C15_Witness ==
    /\ pc = "done"
    /\ Len(nodes) >= 3
    /\ \E i \in DOMAIN pulled :
          pulled[i].kind = "StartTag" /\ ElementKindFromStr(pulled[i].tag) = "Err"

----------------------------------------------------------------------------
(* Style sheets (css/token.rs, css/cssom.rs)                               *)

\* the pulls made so far are the tokens `toks` followed by None only
CssPulledIs(toks) ==
    \A i \in DOMAIN css_pulled :
        css_pulled[i] = IF i <= Len(toks) THEN toks[i] ELSE NoToken

\* C16: tokenizing `selector { property : value ; }` with a type, #id or
\* .class selector yields, with the white space skipped, the selector tokens
\* (Ident, HashToken with its `#`, or Delim('.') and Ident), then OpenCurly,
\* Ident(property), Colon, the value token, SemiColon, CloseCurly, and None
\* on every later pull.
C16_RuleTokens ==
    \A sel \in CssSelectors : \A property \in CssProperties :
    \A val \in CssValues : \A g \in CssGaps : \A h \in CssGaps :
        css_input = RuleText(sel, property, val, g, h) =>
            /\ css_parser.pc # "panic"
            /\ CssPulledIs(sel.tokens \o
                           <<OpenCurly, Ident(property), Colon, val.token,
                             SemiColon, CloseCurly>>)

\* C16 witness: the eight tokens of test_class_selector and the None after
\* them were pulled
C16_Witness ==
    /\ css_input = <<".", "c", "l", "a", "s", "s", " ", "{", " ", "c", "o", "l",
                     "o", "r", ":", " ", "r", "e", "d", ";", " ", "}">>
    /\ Len(css_pulled) >= 9

\* the Declarations of the well-formed ones among written declarations
RECURSIVE GoodDeclarations(_)
GoodDeclarations(ds) ==
    IF ds = <<>> THEN <<>>
    ELSE (IF ds[1].good THEN <<ds[1].declaration>> ELSE <<>>)
            \o GoodDeclarations(Tail(ds))

\* C17: in a declaration list whose declarations are separated by `;`, a
\* declaration whose identifier is not followed by a Colon yields no
\* Declaration and does not abort the list: the well-formed declarations
\* before the CloseCurly of the rule, those after the malformed one included,
\* are the declarations of the rule, in source order, and the rules written
\* after the rule are parsed.
C17_MalformedDeclarationSkipped ==
    \A ds \in DeclarationLists : \A last \in {<<>>, <<";">>} :
    \A r \in FollowingRules :
        css_input = DeclarationsText(ds, last) \o r.text =>
            /\ css_parser.pc # "panic"
            /\ css_parser.pc = "done" =>
                  css_parser.rules =
                      <<QualifiedRule(TypeSelector(<<"p">>), GoodDeclarations(ds))>>
                          \o r.rules

\* C18: parse_stylesheet returns (or panics) on every style sheet text, those
\* included where a pseudo-class selector or an at-keyword is followed by no
\* OpenCurly.
C18_ParseTerminates == <>(css_parser.pc \in {"done", "panic"})

\* C19: an at-rule adds no QualifiedRule to the sheet and every qualified rule
\* written after it is parsed and is in the sheet, in source order.
C19_AtRuleSkipped ==
    \A a \in AtRules : \A r \in FollowingRules :
        css_input = a \o r.text =>
            /\ css_parser.pc # "panic"
            /\ css_parser.pc = "done" => css_parser.rules = r.rules

----------------------------------------------------------------------------
(* URLs (url.rs)                                                           *)

\* the index of the first character of s that is in cs, Len(s) + 1 when there
\* is none
FirstOf(s, cs) ==
    IF \E i \in DOMAIN s : s[i] \in cs
    THEN CHOOSE i \in DOMAIN s : s[i] \in cs /\ \A j \in 1..(i - 1) : s[j] \notin cs
    ELSE Len(s) + 1

\* the text up to, and the text after, the first character of s that is in cs
UpTo(s, cs) == SubSeq(s, 1, FirstOf(s, cs) - 1)
Past(s, cs) == SubSeq(s, FirstOf(s, cs) + 1, Len(s))

\* the parts of a URL as C20 words them: the text after the scheme; the host
\* up to the first `:` or `/`; the port after that `:` up to the first `/`, or
\* 80; the path after the first `/` up to the first `?`; the searchpart after
\* that `?`
StatedRest(u) == SubSeq(u, Len(T_scheme) + 1, Len(u))
StatedHost(u) == UpTo(StatedRest(u), {":", "/"})
StatedPort(u) ==
    LET rest == StatedRest(u)
        k == FirstOf(rest, {":", "/"})
    IN  IF k <= Len(rest) /\ rest[k] = ":" THEN UpTo(Past(rest, {":", "/"}), {"/"})
        ELSE <<"8", "0">>
StatedPath(u) == UpTo(Past(StatedRest(u), {"/"}), {"?"})
StatedSearchpart(u) == Past(Past(StatedRest(u), {"/"}), {"?"})

\* C20: Url::parse returns the error "Only HTTP scheme is supported." exactly
\* when the URL does not start with http://, and otherwise the host, port,
\* path and searchpart stated above.
C20_UrlParts ==
    url_result # NotParsed =>
        IF starts_with(url, T_scheme)
        THEN url_result = Ok(url, StatedHost(url), StatedPort(url),
                             StatedPath(url), StatedSearchpart(url))
        ELSE url_result = Err("Only HTTP scheme is supported.")

----------------------------------------------------------------------------
(* HTTP responses (http.rs)                                                *)

----------------------------------------------------------------------------
(* Claims on the HTML tokenizer and the tree constructor, continued        *)

\* C22: once StartTag script was emitted the tokenizer is in the ScriptData
\* state, and the content of the script element, a `<` that does not begin
\* </script> included, is emitted as one Char token per character, in order,
\* with no StartTag or EndTag before the EndTag script.
C22_ScriptRawText ==
    \A txt \in ScriptTexts :
        input = TextTag(T_script, txt) =>
            /\ pc # "panic"
            /\ pulled = <<StartTag(T_script, FALSE, <<>>)>>
                  => tokenizer.state = "ScriptData"
            /\ PulledIs(<<StartTag(T_script, FALSE, <<>>)>> \o CharTokens(txt)
                            \o <<EndTag(T_script)>>)

\* the element kinds of the cells on the stack of open elements, bottom first
StackKinds == [i \in DOMAIN stack_of_open_elements |->
                  get_element_kind(nodes[stack_of_open_elements[i]])]

\* C23: a body element is inserted in AfterHead only, and once it is, the
\* insertion mode is InBody or a mode entered from it: the tokens after
\* <body> are not handled by the rules of the modes before the body.
C23_InBodyAfterBody ==
    (\E n \in DOMAIN nodes : IsElement(nodes, n, "Body"))
        => current_mode \in {"InBody", "Text", "AfterBody", "AfterAfterBody"}

\* C24: the characters between <style> and </style> make one Text node, the
\* only child of the style element, whose value is all of them in order.
C24_TextCoalesced ==
    \A txt \in StyleTexts :
        (input = TextTag(T_style, txt) /\ pc = "done") =>
            \E n \in DOMAIN nodes :
                /\ IsElement(nodes, n, "Style")
                /\ Len(ChildrenOf(nodes, n)) = 1
                /\ IsText(nodes, nodes[n].first_child)
                /\ nodes[nodes[n].first_child].text = txt

\* C25: a style or script element opened in InHead on the stack [html, head]
\* is closed by its end tag in Text mode: the stack is [html, head] again and
\* the mode is InHead again when the parse of <N>text</N> returns.
C25_TextEndTagRestores ==
    \A name \in {T_style, T_script} : \A txt \in StyleTexts :
        (input = TextTag(name, txt) /\ pc = "done") =>
            /\ StackKinds = <<"Html", "Head">>
            /\ current_mode = "InHead"

\* the kind that C26 gives to each supported name
StatedKind(name) ==
    CASE name = T_html -> "Html"
      [] name = T_head -> "Head"
      [] name = T_style -> "Style"
      [] name = T_script -> "Script"
      [] name = T_body -> "Body"
      [] name = <<"p">> -> "P"
      [] name = <<"a">> -> "A"

\* C26: ElementKind::from_str maps each of the seven supported names to its
\* own kind, script to Script and style to Style.
C26_KindsDistinct ==
    (from_str_result # "None" /\ from_str_s \in SupportedNames)
        => from_str_result = StatedKind(from_str_s)


\* C27: AfterHead is entered only by the three arms of InHead that close the
\* head (a <body> start tag, a start tag of a known kind, </head>), each after
\* pop_until(Head); so whenever the constructor is in AfterHead the head
\* element is not on the stack of open elements and the html element is its
\* top.
C27_HeadClosed ==
    (current_mode = "AfterHead" /\ pc \in {"loop", "done"}) =>
        /\ StackKinds # <<>>
        /\ StackKinds[Len(StackKinds)] = "Html"
        /\ \A i \in DOMAIN StackKinds : StackKinds[i] # "Head"


\* C28: the step that takes the constructor from BeforeHead into InHead (the
\* first entry to InHead) leaves the stack of open elements as [html, head],
\* with the html element the only child of the Document, the head element
\* the first child of html and no other node; and as long as every token
\* pulled is a character token the tree is the Document alone.
C28_FirstInHead ==
    [][ /\ (current_mode = "BeforeHead" /\ current_mode' = "InHead") =>
              /\ Len(stack_of_open_elements') = 2
              /\ IsElement(nodes', stack_of_open_elements'[1], "Html")
              /\ IsElement(nodes', stack_of_open_elements'[2], "Head")
              /\ ChildrenOf(nodes', 1) = <<stack_of_open_elements'[1]>>
              /\ nodes'[stack_of_open_elements'[1]].first_child = stack_of_open_elements'[2]
              /\ nodes'[stack_of_open_elements'[1]].parent = 1
              /\ nodes'[stack_of_open_elements'[2]].parent = stack_of_open_elements'[1]
              /\ Len(nodes') = 3
        /\ (\A i \in DOMAIN pulled' : pulled'[i].kind = "Char") => Len(nodes') = 1
      ]_vars

\* InHead has just been entered on an end tag that follows a character
C28_Witness ==
    /\ current_mode = "InHead"
    /\ Len(nodes) = 3
    /\ Len(pulled) = 2
    /\ pulled[1].kind = "Char"
    /\ pulled[2].kind = "EndTag"
    /\ token = pulled[2]
    /\ pulled[2].tag # T_head


\* the cell that insert_element attaches to: the stack top, or the Document
OpenElement == 
    IF stack_of_open_elements = <<>> THEN 1
    ELSE stack_of_open_elements[Len(stack_of_open_elements)]

\* the last of the children of cell p, 0 when it has none
TailOf(ns, p) ==
    LET cs == ChildrenOf(ns, p) IN IF cs = <<>> THEN 0 ELSE cs[Len(cs)]

\* C29: a step that inserts an element appends it as the last child of the
\* current open element (the stack top, or the Document when the stack is
\* empty): the new cell is the parent's last_child, its previous sibling is
\* the former tail, the parent's earlier children keep their order before it,
\* its parent link is the parent, it is pushed on the stack, and every cell
\* other than the parent and the former tail is left as it was.
C29_InsertElementAppends ==
    [][ (Len(nodes') = Len(nodes) + 1 /\ nodes'[Len(nodes')].kind = "Element") =>
            LET id == Len(nodes')
                parent == OpenElement
                tail == TailOf(nodes, parent)
            IN  /\ nodes'[parent].last_child = id
                /\ nodes'[id].previous_sibling = tail
                /\ nodes'[id].next_sibling = 0
                /\ ChildrenOf(nodes', parent) = Append(ChildrenOf(nodes, parent), id)
                /\ nodes'[id].parent = parent
                /\ stack_of_open_elements' = Append(stack_of_open_elements, id)
                /\ \A n \in DOMAIN nodes : n \notin {parent, tail} => nodes'[n] = nodes[n]
      ]_vars

\* an element was appended to the Document, whose stack was empty, after the
\* html element
C29_Witness ==
    \E n \in DOMAIN nodes :
        /\ nodes[n].kind = "Element"
        /\ nodes[n].parent = 1
        /\ nodes[n].previous_sibling # 0
        /\ stack_of_open_elements = <<n>>


\* the reads of one call of next(): a read made with the flag set returns the
\* character of the read before it, leaves the position where it was and
\* clears the flag; any other read advances the position by one
ReadsReconsume(reads) ==
    \A i \in DOMAIN reads :
        IF reads[i].reconsume
        THEN /\ i > 1
             /\ reads[i].pos_after = reads[i].pos
             /\ reads[i].c = reads[i - 1].c
             /\ ~reads[i].reconsume_after
        ELSE reads[i].pos_after = reads[i].pos + 1

\* how often the reads present the character at position p
Presented(reads, p) == Cardinality({i \in DOMAIN reads : reads[i].pos_after = p})

\* C30 as stated: in every call of next() the read after a reconsume returns the same character
\* without advancing and clears the flag, the position never decreases, and
\* every input character is presented at most once more, that is at most
\* twice.
C30_PresentedOnceMore ==
    [][ pulled' # pulled =>
            LET reads == ReadsOfNext(tokenizer, input)
            IN  /\ ReadsReconsume(reads)
                /\ ~tokenizer'.reconsume
                /\ tokenizer'.pos >= tokenizer.pos
                /\ \A p \in DOMAIN input : Presented(reads, p) <= 2
      ]_vars

\* C30, amended: in every call of next() the read after a reconsume returns the same character
\* without advancing and clears the flag, the position never decreases, and
\* every input character is presented at most twice more, that is at most
\* three times.
C30_ReconsumeRepresents ==
    [][ pulled' # pulled =>
            LET reads == ReadsOfNext(tokenizer, input)
            IN  /\ ReadsReconsume(reads)
                /\ ~tokenizer'.reconsume
                /\ tokenizer'.pos >= tokenizer.pos
                /\ \A p \in DOMAIN input : Presented(reads, p) <= 3
      ]_vars

\* a start tag has been returned whose second attribute began at a character
\* presented three times
C30_Witness ==
    /\ input \in AbuttingAttrTags
    /\ pulled # <<>>
    /\ pulled[1].kind = "StartTag"
    /\ Len(pulled[1].attributes) = 2
    /\ \E p \in DOMAIN input : Presented(ReadsOfNext(NewTokenizer, input), p) = 3


UpperCaseLetters ==
    {"A","B","C","D","E","F","G","H","I","J","K","L","M",
     "N","O","P","Q","R","S","T","U","V","W","X","Y","Z"}

NoUpperCase(s) == \A i \in DOMAIN s : s[i] \notin UpperCaseLetters

\* the tokens of <DiV Id=Ab X='Yz'></DiV> with the names folded and the values
\* as written
CaseTagTokens ==
    << StartTag(<<"d", "i", "v">>, FALSE,
                << [name |-> <<"i", "d">>, value |-> <<"A", "b">>],
                   [name |-> <<"x">>, value |-> <<"Y", "z">>] >>),
       EndTag(<<"d", "i", "v">>) >>

\* C31: in every emitted StartTag and EndTag the tag name and every attribute
\* name hold no uppercase ASCII letter; and for <DiV Id=Ab X='Yz'></DiV> the
\* names are the written ones with each uppercase letter replaced by its
\* lowercase form while the attribute values are the written characters with
\* their case unchanged.
C31_CaseFolding ==
    /\ \A i \in DOMAIN pulled :
          pulled[i].kind \in {"StartTag", "EndTag"} =>
              /\ NoUpperCase(pulled[i].tag)
              /\ pulled[i].kind = "StartTag" =>
                    \A j \in DOMAIN pulled[i].attributes :
                        NoUpperCase(pulled[i].attributes[j].name)
    /\ input = CaseTag => pc # "panic" /\ PulledIs(CaseTagTokens)

\* both tags of <DiV Id=Ab X='Yz'></DiV> have been emitted
C31_Witness == input = CaseTag /\ Len(pulled) >= 2 /\ pulled[2].kind = "EndTag"


\* the sheet holds a first rule none of whose declarations has the CloseCurly
\* as its value, followed by exactly the rules `following`
FirstRuleClosed(following) ==
    /\ Len(css_parser.rules) = 1 + Len(following)
    /\ SubSeq(css_parser.rules, 2, Len(css_parser.rules)) = following
    /\ \A i \in DOMAIN css_parser.rules[1].declarations :
          css_parser.rules[1].declarations[i].value # CloseCurly

\* C32: the first CloseCurly after the OpenCurly of a rule ends its declaration
\* list, whether the declarations before it are well formed, lack their colon
\* or lack their value: the CloseCurly is no declaration value and the rules
\* written after it are parsed as rules of their own, so that none of their
\* declarations is a declaration of the first rule.
C32_CloseCurlyTerminates ==
    /\ \A ds \in DeclarationLists : \A last \in {<<>>, <<";">>} :
       \A r \in FollowingRules :
          (css_input = DeclarationsText(ds, last) \o r.text /\ css_parser.pc = "done")
              => FirstRuleClosed(r.rules)
    /\ \A r \in FollowingRules :
          (css_input = <<"p", "{", "a", ":", "}">> \o r.text /\ css_parser.pc = "done")
              => FirstRuleClosed(r.rules)


T_ab == Declaration(<<"a">>, Ident(<<"b">>))

\* C33: when the style sheet ends inside a declaration, after its identifier
\* or after its colon, the parse does not abort and the unfinished
\* declaration is no declaration of the rule: p{top, p{top: and p{top:
\* followed by a space give the rule p with no declaration, and p{a:b;top:
\* gives the rule p with the declaration a: b alone.
C33_ExhaustedDeclaration ==
    /\ css_input \in {<<"p", "{", "t", "o", "p">>, <<"p", "{", "t", "o", "p", ":">>,
                      <<"p", "{", "t", "o", "p", ":", " ">>} =>
          /\ css_parser.pc # "panic"
          /\ css_parser.pc = "done" =>
                css_parser.rules = <<QualifiedRule(TypeSelector(<<"p">>), <<>>)>>
    /\ css_input = <<"p", "{", "a", ":", "b", ";", "t", "o", "p", ":">> =>
          /\ css_parser.pc # "panic"
          /\ css_parser.pc = "done" =>
                css_parser.rules = <<QualifiedRule(TypeSelector(<<"p">>), <<T_ab>>)>>


\* C34: in a rule whose selector is one token that is no HashToken, Delim,
\* Ident or AtKeyword, consume_selector returns UnknownSelector having
\* consumed that token alone: the tokenizer stands directly after the
\* selector text with nothing peeked, so that the OpenCurly is the next token
\* of the caller.
C34_UnknownSelectorOneToken ==
    \A s \in OtherSelectorTexts :
        css_input = s \o <<"{", "a", ":", "b", "}">> =>
            /\ css_parser.pc # "panic"
            /\ (css_parser.pc = "rule" /\ css_parser.rule.selector = UnknownSelector) =>
                  /\ css_parser.tokenizer.pos = Len(s)
                  /\ css_parser.tokenizer.peeked = NotPeeked


\* C35: no Ident or AtKeyword token emitted by the tokenizer holds a `#`, and
\* a HashToken holds it as its first character only; so the `#` written after
\* identifier characters ends the identifier.
C35_HashLeadsHashToken ==
    \A i \in DOMAIN css_pulled :
        /\ css_pulled[i].kind \in {"Ident", "AtKeyword"} =>
              \A j \in DOMAIN css_pulled[i].value : css_pulled[i].value[j] # "#"
        /\ css_pulled[i].kind = "HashToken" =>
              \A j \in DOMAIN css_pulled[i].value :
                  css_pulled[i].value[j] = "#" => j = 1


\* C36: an end tag written with a space, attributes or `/` between its name
\* and its `>` does not make the tokenizer abort: the checks of
\* start_new_attribute, append_character_to_attribute, set_self_closing_flag
\* and emit_latest_token find the pending token they require.
C36_PendingTokenChecks ==
    \A e \in SlashEnds \cup PlainEnds :
        input = EndTagWithEnd(<<"p">>, e) => pc # "panic"


\* C37: every entry of the stack of open elements is an Element node and
\* every Text node is a leaf.
C37_TextIsLeaf ==
    /\ \A i \in DOMAIN stack_of_open_elements :
          nodes[stack_of_open_elements[i]].kind = "Element"
    /\ \A n \in DOMAIN nodes :
          nodes[n].kind = "Text" => nodes[n].first_child = 0


\* C38: the stack of open elements is an ancestor chain of the tree: the
\* parent of its bottom entry is the Document, and every other entry has the
\* entry directly below it as its parent and is among that entry's children.
C38_StackIsAncestorChain ==
    \A i \in DOMAIN stack_of_open_elements :
        LET below == IF i = 1 THEN 1 ELSE stack_of_open_elements[i - 1]
            child == stack_of_open_elements[i]
        IN  /\ nodes[child].parent = below
            /\ \E j \in DOMAIN ChildrenOf(nodes, below) :
                  ChildrenOf(nodes, below)[j] = child

\* the stack holds html, head, a style element and its Text node
C38_Witness ==
    /\ Len(stack_of_open_elements) = 4
    /\ nodes[stack_of_open_elements[4]].kind = "Text"
    /\ IsElement(nodes, stack_of_open_elements[3], "Style")


\* C39: the Document has at most one child, the html element, and every
\* other node has a parent that is not the Document.
C39_HtmlOnlyChildOfDocument ==
    /\ Len(ChildrenOf(nodes, 1)) <= 1
    /\ \A n \in DOMAIN nodes :
          nodes[n].parent = 1 => IsElement(nodes, n, "Html")


\* C40: a text in which every `<` is followed by a character that is neither
\* a letter nor `/` is tokenized as the Char tokens of its characters, the
\* `<` included, in order; and the space written between `</` and the name
\* in </ p> is among the tokens pulled once the input is exhausted.
C40_NoCharacterLost ==
    /\ \A t \in LessThanTexts :
          input = t => pc # "panic" /\ PulledIs(CharTokens(t))
    /\ (input = SpacedEndTag /\ pulled # <<>> /\ pulled[Len(pulled)] = NoToken) =>
          \E i \in DOMAIN pulled : pulled[i] = Char(" ")

====
